---------------------------- MODULE Spec2Model ----------------------------
(***************************************************************************)
(* A model of the wire-protocol core of vk_commander: the RESP frame       *)
(* completeness detector, the RESP parsers, the socket read loop, the      *)
(* connection handshake and the stream lock of ValkeyClient.               *)
(*                                                                         *)
(* Bytes are modelled as one-character strings; a buffer is a sequence of  *)
(* bytes.  Offsets are 0-based as in the Rust source: At(data, i) is       *)
(* data[i].                                                                *)
(***************************************************************************)
EXTENDS Integers, Sequences, FiniteSets, TLC

----------------------------------------------------------------------------
(* Bytes *)

CR == "CR"
LF == "LF"
\* a byte that is not valid UTF-8 wherever it stands (0xFF)
XFF == "xFF"

Digits == {"0", "1", "2", "3", "4", "5", "6", "7", "8", "9"}

DigitVal(c) ==
    CASE c = "0" -> 0 [] c = "1" -> 1 [] c = "2" -> 2 [] c = "3" -> 3
      [] c = "4" -> 4 [] c = "5" -> 5 [] c = "6" -> 6 [] c = "7" -> 7
      [] c = "8" -> 8 [] c = "9" -> 9

DigitChar(n) ==
    CASE n = 0 -> "0" [] n = 1 -> "1" [] n = 2 -> "2" [] n = 3 -> "3"
      [] n = 4 -> "4" [] n = 5 -> "5" [] n = 6 -> "6" [] n = 7 -> "7"
      [] n = 8 -> "8" [] n = 9 -> "9"

At(data, i) == data[i + 1]

\* data[from..to] of Rust: the bytes at offsets from .. to-1
Slice(data, from, to) == SubSeq(data, from + 1, to)

SetMin(S) == CHOOSE x \in S : \A y \in S : x <= y

SeqRange(s) == {s[i] : i \in 1 .. Len(s)}

RECURSIVE Concat(_)
Concat(ss) == IF ss = <<>> THEN <<>> ELSE Head(ss) \o Concat(Tail(ss))

\* String::from_utf8 / std::str::from_utf8 succeed
Utf8Valid(data) == XFF \notin SeqRange(data)

\* Option::None of an offset
None == -1

find_crlf(data, start) ==
    LET hits == {i \in start .. (Len(data) - 2) :
                    At(data, i) = CR /\ At(data, i + 1) = LF}
    IN  IF hits = {} THEN None ELSE SetMin(hits)

----------------------------------------------------------------------------
(* str::parse::<i64>, ::<usize>, ::<u8> and integer formatting *)

RECURSIVE DigitsVal(_)
DigitsVal(s) ==
    IF s = <<>> THEN 0
    ELSE 10 * DigitsVal(SubSeq(s, 1, Len(s) - 1)) + DigitVal(s[Len(s)])

AllDigits(s) == s # <<>> /\ \A i \in 1 .. Len(s) : s[i] \in Digits

NumErr == [ok |-> FALSE, val |-> 0]

ParseI64(s) ==
    IF s # <<>> /\ s[1] = "-"
    THEN IF AllDigits(Tail(s)) THEN [ok |-> TRUE, val |-> 0 - DigitsVal(Tail(s))]
         ELSE NumErr
    ELSE IF s # <<>> /\ s[1] = "+"
    THEN IF AllDigits(Tail(s)) THEN [ok |-> TRUE, val |-> DigitsVal(Tail(s))]
         ELSE NumErr
    ELSE IF AllDigits(s) THEN [ok |-> TRUE, val |-> DigitsVal(s)] ELSE NumErr

ParseUsize(s) ==
    IF s # <<>> /\ s[1] = "+"
    THEN IF AllDigits(Tail(s)) THEN [ok |-> TRUE, val |-> DigitsVal(Tail(s))]
         ELSE NumErr
    ELSE IF AllDigits(s) THEN [ok |-> TRUE, val |-> DigitsVal(s)] ELSE NumErr

U8Max == 255

ParseU8(s) ==
    LET r == ParseUsize(s)
    IN  IF r.ok /\ r.val <= U8Max THEN r ELSE NumErr

RECURSIVE NatStr(_)
NatStr(n) ==
    IF n < 10 THEN <<DigitChar(n)>> ELSE NatStr(n \div 10) \o <<DigitChar(n % 10)>>

IntStr(n) == IF n < 0 THEN <<"-">> \o NatStr(0 - n) ELSE NatStr(n)

----------------------------------------------------------------------------
(* ValkeyClient::parse_resp_value: the length of the frame at `start` *)

POk(pos, consumed) == [ok |-> TRUE, pos |-> pos, consumed |-> consumed, err |-> ""]
PErr(msg) == [ok |-> FALSE, pos |-> 0, consumed |-> 0, err |-> msg]

SimpleTypeBytes == {"+", "-", ":", "#", ",", "(", "_"}

\* the `$`, `!` and `=` arms: a length header, then that many bytes, then CRLF
LengthPrefixed(data, start, name) ==
    LET header_end == find_crlf(data, start)
    IN  IF header_end = None THEN PErr("Incomplete " \o name \o " header")
        ELSE LET hdr == Slice(data, start + 1, header_end)
                 length == ParseI64(hdr)
             IN  IF ~Utf8Valid(hdr) THEN PErr("Invalid " \o name \o " header")
                 ELSE IF ~length.ok THEN PErr("Invalid " \o name \o " length")
                 ELSE IF length.val < 0
                 THEN POk(header_end + 2, header_end + 2 - start)
                 ELSE LET data_start == header_end + 2
                          data_end == data_start + length.val
                      IN  IF /\ data_end + 2 <= Len(data)
                             /\ At(data, data_end) = CR
                             /\ At(data, data_end + 1) = LF
                          THEN POk(data_end + 2, data_end + 2 - start)
                          ELSE PErr("Incomplete " \o name \o " data")

RECURSIVE parse_resp_value(_, _)
RECURSIVE parse_resp_elems(_, _, _)

\* `for _ in 0..n { let (new_pos, _) = parse_resp_value(data, pos)?; pos = new_pos }`
parse_resp_elems(data, pos, n) ==
    IF n = 0 THEN POk(pos, 0)
    ELSE LET r == parse_resp_value(data, pos)
         IN  IF r.ok THEN parse_resp_elems(data, r.pos, n - 1) ELSE r

parse_resp_value(data, start) ==
    IF start >= Len(data) THEN PErr("Incomplete data")
    ELSE LET first_byte == At(data, start)
             header_end == find_crlf(data, start)
             hdr == Slice(data, start + 1, header_end)
         IN
         CASE first_byte \in SimpleTypeBytes ->
                IF header_end # None
                THEN POk(header_end + 2, header_end + 2 - start)
                ELSE PErr("Incomplete simple type")
           [] first_byte = "$" -> LengthPrefixed(data, start, "bulk string")
           [] first_byte = "!" -> LengthPrefixed(data, start, "bulk error")
           [] first_byte = "=" -> LengthPrefixed(data, start, "verbatim string")
           [] first_byte = "*" ->
                IF header_end = None THEN PErr("Incomplete array header")
                ELSE IF ~Utf8Valid(hdr) THEN PErr("Invalid array header")
                ELSE IF ~ParseI64(hdr).ok THEN PErr("Invalid array count")
                ELSE IF ParseI64(hdr).val < 0
                THEN POk(header_end + 2, header_end + 2 - start)
                ELSE LET r == parse_resp_elems(data, header_end + 2, ParseI64(hdr).val)
                     IN  IF r.ok THEN POk(r.pos, r.pos - start) ELSE r
           [] first_byte = "%" ->
                IF header_end = None THEN PErr("Incomplete map header")
                ELSE IF ~Utf8Valid(hdr) THEN PErr("Invalid map header")
                ELSE IF ~ParseUsize(hdr).ok THEN PErr("Invalid map length")
                ELSE LET r == parse_resp_elems(data, header_end + 2,
                                               2 * ParseUsize(hdr).val)
                     IN  IF r.ok THEN POk(r.pos, r.pos - start) ELSE r
           [] first_byte \in {"~", ">"} ->
                IF header_end = None THEN PErr("Incomplete collection header")
                ELSE IF ~Utf8Valid(hdr) THEN PErr("Invalid collection header")
                ELSE IF ~ParseUsize(hdr).ok THEN PErr("Invalid collection length")
                ELSE LET r == parse_resp_elems(data, header_end + 2,
                                               ParseUsize(hdr).val)
                     IN  IF r.ok THEN POk(r.pos, r.pos - start) ELSE r
           [] OTHER -> PErr("Unknown RESP type")

is_complete_resp_message(data) ==
    LET r == parse_resp_value(data, 0)
    IN  r.ok /\ r.consumed = Len(data)

----------------------------------------------------------------------------
(* ValkeyClient::count_complete_resp_messages *)

find_next_complete_message(data, start_pos) ==
    IF start_pos >= Len(data) THEN None
    ELSE LET crlf_pos == find_crlf(data, start_pos)
         IN  IF crlf_pos = None THEN None ELSE crlf_pos + 2

RECURSIVE count_from(_, _, _)
count_from(data, pos, count) ==
    IF pos < Len(data)
    THEN LET end_pos == find_next_complete_message(data, pos)
         IN  IF end_pos # None THEN count_from(data, end_pos, count + 1) ELSE count
    ELSE count

count_complete_resp_messages(data) == count_from(data, 0, 0)

----------------------------------------------------------------------------
(* ValkeyValue: [type, v].  v is always a sequence: the text or payload     *)
(* bytes, the elements, <<n>> of an Integer, <<b>> of a Boolean, <<d>> of a *)
(* Double, <<format, data>> of a VerbatimString, and the <<key, value>>     *)
(* entries of a Maps in insertion order.                                    *)

SimpleString(s) == [type |-> "SimpleString", v |-> s]
SimpleError(s) == [type |-> "SimpleError", v |-> s]
Integer(i) == [type |-> "Integer", v |-> <<i>>]
BulkString(b) == [type |-> "BulkString", v |-> b]
Array(vs) == [type |-> "Array", v |-> vs]
Null == [type |-> "Null", v |-> <<>>]
Boolean(b) == [type |-> "Boolean", v |-> <<b>>]
Double(d) == [type |-> "Double", v |-> <<d>>]
BigNumber(s) == [type |-> "BigNumber", v |-> s]
BulkErrors(b) == [type |-> "BulkErrors", v |-> b]
VerbatimString(format, data) == [type |-> "VerbatimString", v |-> <<format, data>>]
Maps(entries) == [type |-> "Maps", v |-> entries]
Sets(vs) == [type |-> "Sets", v |-> vs]
Pushes(vs) == [type |-> "Pushes", v |-> vs]

(* f64: [kind, neg, int, frac], frac without trailing zeros *)
F64Num(neg, int, frac) == [kind |-> "num", neg |-> neg, int |-> int, frac |-> frac]
F64Inf(neg) == [kind |-> "inf", neg |-> neg, int |-> 0, frac |-> <<>>]
F64NaN == [kind |-> "nan", neg |-> FALSE, int |-> 0, frac |-> <<>>]

RECURSIVE StripZeros(_)
StripZeros(s) ==
    IF s # <<>> /\ s[Len(s)] = "0" THEN StripZeros(SubSeq(s, 1, Len(s) - 1)) ELSE s

IndexOf(s, c) ==
    LET hits == {i \in 1 .. Len(s) : s[i] = c}
    IN  IF hits = {} THEN 0 ELSE SetMin(hits)

\* str::parse::<f64> on the decimal forms [+-]digits[.digits], inf, nan
ParseF64(s) ==
    LET neg == s # <<>> /\ s[1] = "-"
        body == IF s # <<>> /\ s[1] \in {"-", "+"} THEN Tail(s) ELSE s
        dot == IndexOf(body, ".")
        ip == IF dot = 0 THEN body ELSE SubSeq(body, 1, dot - 1)
        fp == IF dot = 0 THEN <<>> ELSE SubSeq(body, dot + 1, Len(body))
        bad == [ok |-> FALSE, val |-> F64NaN]
    IN  IF body = <<"i", "n", "f">> THEN [ok |-> TRUE, val |-> F64Inf(neg)]
        ELSE IF body = <<"n", "a", "n">> THEN [ok |-> TRUE, val |-> F64NaN]
        ELSE IF /\ ip \o fp # <<>>
                /\ \A i \in 1 .. Len(ip) : ip[i] \in Digits
                /\ \A i \in 1 .. Len(fp) : fp[i] \in Digits
        THEN [ok |-> TRUE, val |-> F64Num(neg, DigitsVal(ip), StripZeros(fp))]
        ELSE bad

\* `{}` of an f64
F64Str(d) ==
    CASE d.kind = "nan" -> <<"N", "a", "N">>
      [] d.kind = "inf" -> (IF d.neg THEN <<"-">> ELSE <<>>) \o <<"i", "n", "f">>
      [] OTHER -> (IF d.neg THEN <<"-">> ELSE <<>>) \o NatStr(d.int)
                    \o (IF d.frac = <<>> THEN <<>> ELSE <<".">> \o d.frac)

\* f64 ==
F64Eq(a, b) ==
    /\ a.kind # "nan" /\ b.kind # "nan"
    /\ a.kind = b.kind
    /\ \/ a.kind = "inf" /\ a.neg = b.neg
       \/ /\ a.kind = "num" /\ a.int = b.int /\ a.frac = b.frac
          /\ (a.neg = b.neg \/ (a.int = 0 /\ a.frac = <<>>))

\* a variant that compares the fields and not the variant
ValueEqByText(a, b) == a.v = b.v

\* impl PartialEq for ValkeyValue
RECURSIVE ValueEq(_, _)
ValueEq(a, b) ==
    IF a.type # b.type THEN FALSE
    ELSE CASE a.type \in {"Array", "Sets", "Pushes"} ->
                /\ Len(a.v) = Len(b.v)
                /\ \A i \in 1 .. Len(a.v) : ValueEq(a.v[i], b.v[i])
           [] a.type = "Double" -> F64Eq(a.v[1], b.v[1])
           [] a.type = "Maps" -> TRUE
           [] OTHER -> a.v = b.v

\* Vec::dedup: drops an element equal to the one kept before it
RECURSIVE DedupFrom(_, _)
DedupFrom(kept, rest) ==
    IF rest = <<>> THEN kept
    ELSE IF kept # <<>> /\ ValueEq(Head(rest), kept[Len(kept)])
    THEN DedupFrom(kept, Tail(rest))
    ELSE DedupFrom(Append(kept, Head(rest)), Tail(rest))

dedup(vs) == DedupFrom(<<>>, vs)

\* HashMap::insert: the value of an equal key is replaced, the key is kept
MapInsert(entries, key, value) ==
    LET hits == {i \in 1 .. Len(entries) : ValueEq(entries[i][1], key)}
    IN  IF hits = {} THEN Append(entries, <<key, value>>)
        ELSE [entries EXCEPT ![SetMin(hits)] = <<entries[SetMin(hits)][1], value>>]

\* HashMap::get: Option<&V> as <<>> or <<value>>
MapGet(entries, key) ==
    LET hits == {i \in 1 .. Len(entries) : ValueEq(entries[i][1], key)}
    IN  IF hits = {} THEN <<>> ELSE <<entries[SetMin(hits)][2]>>

\* the replacement character of String::from_utf8_lossy
REPL == "uFFFD"

from_utf8_lossy(b) == [i \in 1 .. Len(b) |-> IF b[i] = XFF THEN REPL ELSE b[i]]

\* Vec<u8>::len of the payload, and str::len of a text
ByteLen(b) == Len(b)

RECURSIVE to_resp(_)
RECURSIVE RespAll(_)
RespAll(vs) == IF vs = <<>> THEN <<>> ELSE to_resp(Head(vs)) \o RespAll(Tail(vs))

\* the (k, v) loop of to_resp for Maps: the value is pushed before the key
RECURSIVE RespEntriesValueFirst(_)
RespEntriesValueFirst(es) ==
    IF es = <<>> THEN <<>>
    ELSE to_resp(Head(es)[2]) \o to_resp(Head(es)[1]) \o RespEntriesValueFirst(Tail(es))

\* the (k, v) loop of Display for Maps
RECURSIVE RespEntriesKeyFirst(_)
RespEntriesKeyFirst(es) ==
    IF es = <<>> THEN <<>>
    ELSE to_resp(Head(es)[1]) \o to_resp(Head(es)[2]) \o RespEntriesKeyFirst(Tail(es))

\* impl ToResp for ValkeyValue
to_resp(x) ==
    CASE x.type = "SimpleString" -> <<"+">> \o x.v \o <<CR, LF>>
      [] x.type = "SimpleError" -> <<"-">> \o x.v \o <<CR, LF>>
      [] x.type = "Integer" -> <<":">> \o IntStr(x.v[1]) \o <<CR, LF>>
      [] x.type = "BulkString" ->
            <<"$">> \o NatStr(ByteLen(x.v)) \o <<CR, LF>> \o from_utf8_lossy(x.v) \o <<CR, LF>>
      [] x.type = "Array" -> <<"*">> \o NatStr(Len(x.v)) \o <<CR, LF>> \o RespAll(x.v)
      [] x.type = "Null" -> <<"$", "-", "1", CR, LF>>
      [] x.type = "Boolean" -> <<"#", IF x.v[1] THEN "t" ELSE "f", CR, LF>>
      [] x.type = "Double" -> <<",">> \o F64Str(x.v[1]) \o <<CR, LF>>
      [] x.type = "BigNumber" -> <<"(">> \o x.v \o <<CR, LF>>
      [] x.type = "BulkErrors" ->
            <<"!">> \o NatStr(ByteLen(x.v)) \o <<CR, LF>> \o from_utf8_lossy(x.v) \o <<CR, LF>>
      [] x.type = "VerbatimString" ->
            <<"=">> \o NatStr(ByteLen(x.v[1]) + ByteLen(x.v[2]) + 1) \o <<CR, LF>>
                \o x.v[1] \o <<":">> \o x.v[2] \o <<CR, LF>>
      [] x.type = "Maps" ->
            <<"%">> \o NatStr(Len(x.v)) \o <<CR, LF>> \o RespEntriesValueFirst(x.v)
      [] x.type = "Sets" ->
            <<"~">> \o NatStr(Len(dedup(x.v))) \o <<CR, LF>> \o RespAll(dedup(x.v))
      [] x.type = "Pushes" -> <<">">> \o NatStr(Len(x.v)) \o <<CR, LF>> \o RespAll(x.v)

\* impl Display for ValkeyValue (to_string)
to_string(x) ==
    CASE x.type \in {"SimpleString", "SimpleError", "BigNumber"} -> x.v
      [] x.type = "Integer" -> IntStr(x.v[1])
      [] x.type \in {"BulkString", "BulkErrors"} -> from_utf8_lossy(x.v)
      [] x.type \in {"Array", "Pushes"} -> RespAll(x.v)
      [] x.type = "Boolean" ->
            IF x.v[1] THEN <<"t", "r", "u", "e">> ELSE <<"f", "a", "l", "s", "e">>
      [] x.type = "Double" -> F64Str(x.v[1])
      [] x.type = "VerbatimString" -> x.v[1] \o <<":">> \o x.v[2]
      [] x.type = "Maps" -> RespEntriesKeyFirst(x.v)
      [] x.type = "Sets" -> RespAll(dedup(x.v))
      [] OTHER -> <<>>

\* impl ToVec for ValkeyValue
RECURSIVE to_vec(_)
RECURSIVE VecAll(_)
VecAll(vs) == IF vs = <<>> THEN <<>> ELSE to_vec(Head(vs)) \o VecAll(Tail(vs))

RECURSIVE VecEntries(_)
VecEntries(es) ==
    IF es = <<>> THEN <<>>
    ELSE <<to_string(Head(es)[1]), to_string(Head(es)[2])>> \o VecEntries(Tail(es))

to_vec(x) ==
    CASE x.type \in {"Array", "Sets", "Pushes"} -> VecAll(x.v)
      [] x.type = "Maps" -> VecEntries(x.v)
      [] OTHER -> <<to_string(x)>>

----------------------------------------------------------------------------
(* The line-based parser ValkeyValue::parse_value.  The iterator `lines` is *)
(* the pair (ls, i): the lines and the number of lines already taken.       *)

\* str::lines: split after every LF, the LF and one CR before it dropped
RECURSIVE lines(_)
lines(s) ==
    IF s = <<>> THEN <<>>
    ELSE LET nl == IndexOf(s, LF)
             raw == SubSeq(s, 1, nl - 1)
         IN  IF nl = 0 THEN <<s>>
             ELSE <<IF raw # <<>> /\ raw[Len(raw)] = CR
                    THEN SubSeq(raw, 1, Len(raw) - 1) ELSE raw>>
                  \o lines(SubSeq(s, nl + 1, Len(s)))

WhiteSpace == {" ", "TAB", CR, LF}

RECURSIVE trim_end(_)
trim_end(s) ==
    IF s # <<>> /\ s[Len(s)] \in WhiteSpace THEN trim_end(SubSeq(s, 1, Len(s) - 1)) ELSE s

RECURSIVE trim_start(_)
trim_start(s) == IF s # <<>> /\ s[1] \in WhiteSpace THEN trim_start(Tail(s)) ELSE s

trim(s) == trim_start(trim_end(s))

RECURSIVE trim_start_matches(_, _)
trim_start_matches(s, c) ==
    IF s # <<>> /\ s[1] = c THEN trim_start_matches(Tail(s), c) ELSE s

\* str::split(':'): the pieces between the separators
RECURSIVE split(_, _)
split(s, c) ==
    LET k == IndexOf(s, c)
    IN  IF k = 0 THEN <<s>>
        ELSE <<SubSeq(s, 1, k - 1)>> \o split(SubSeq(s, k + 1, Len(s)), c)

\* a parsed value and the iterator position after it
LV(val, next) == [val |-> val, next |-> next]

RECURSIVE parse_value(_, _)
RECURSIVE parse_value_elems(_, _, _, _)
RECURSIVE parse_value_entries(_, _, _, _)

\* `for _ in 0..n { items.push(parse_value(lines)) }`
parse_value_elems(ls, i, n, acc) ==
    IF n = 0 THEN LV(acc, i)
    ELSE LET e == parse_value(ls, i)
         IN  parse_value_elems(ls, e.next, n - 1, Append(acc, e.val))

\* `for _ in 0..len { map.insert(parse_value(lines), parse_value(lines)) }`
parse_value_entries(ls, i, n, acc) ==
    IF n = 0 THEN LV(acc, i)
    ELSE LET k == parse_value(ls, i)
             w == parse_value(ls, k.next)
         IN  parse_value_entries(ls, w.next, n - 1, MapInsert(acc, k.val, w.val))

parse_value(ls, i) ==
    IF i >= Len(ls) THEN LV(Null, i)
    ELSE LET header == ls[i + 1]
             first_char == IF header = <<>> THEN "_" ELSE header[1]
             arg == trim(trim_start_matches(header, first_char))
             more == i + 1 < Len(ls)
             data_line == ls[i + 2]
         IN
         CASE first_char = "+" ->
                LV(SimpleString(trim_end(trim_start_matches(header, "+"))), i + 1)
           [] first_char = "-" ->
                LV(SimpleError(trim_end(trim_start_matches(header, "-"))), i + 1)
           [] first_char = ":" ->
                LV(IF ParseI64(arg).ok THEN Integer(ParseI64(arg).val) ELSE Null, i + 1)
           [] first_char = "$" ->
                IF ParseI64(arg).ok /\ ParseI64(arg).val >= 0
                THEN IF more THEN LV(BulkString(data_line), i + 2) ELSE LV(Null, i + 1)
                ELSE LV(Null, i + 1)
           [] first_char = "*" ->
                LET count == IF ParseI64(arg).ok THEN ParseI64(arg).val ELSE -1
                    r == parse_value_elems(ls, i + 1, count, <<>>)
                IN  IF count < 0 THEN LV(Null, i + 1) ELSE LV(Array(r.val), r.next)
           [] first_char = "#" -> LV(Boolean(arg \in {<<"t">>, <<"T">>}), i + 1)
           [] first_char = "," ->
                LV(IF ParseF64(arg).ok THEN Double(ParseF64(arg).val) ELSE Null, i + 1)
           [] first_char = "(" -> LV(BigNumber(arg), i + 1)
           [] first_char = "!" ->
                IF ParseI64(arg).ok /\ ParseI64(arg).val >= 0
                THEN IF more THEN LV(BulkErrors(data_line), i + 2)
                     ELSE LV(SimpleError(<<"E", "r", "r", "o", "r">>), i + 1)
                ELSE LV(SimpleError(<<"E", "r", "r", "o", "r">>), i + 1)
           [] first_char = "=" ->
                IF ParseI64(arg).ok /\ ParseI64(arg).val >= 0
                THEN IF more
                     THEN LET data == split(data_line, ":")
                          IN  LV(VerbatimString(data[1], data[Len(data)]), i + 2)
                     ELSE LV(Null, i + 1)
                ELSE LV(Null, i + 1)
           [] first_char = "%" ->
                LET len == IF ParseUsize(arg).ok THEN ParseUsize(arg).val ELSE 0
                    r == parse_value_entries(ls, i + 1, len, <<>>)
                IN  LV(Maps(r.val), r.next)
           [] first_char = "~" ->
                LET len == IF ParseUsize(arg).ok THEN ParseUsize(arg).val ELSE 0
                    r == parse_value_elems(ls, i + 1, len, <<>>)
                IN  LV(Sets(dedup(r.val)), r.next)
           [] first_char = ">" ->
                LET len == IF ParseUsize(arg).ok THEN ParseUsize(arg).val ELSE 0
                    r == parse_value_elems(ls, i + 1, len, <<>>)
                IN  LV(Pushes(r.val), r.next)
           [] OTHER -> LV(Null, i + 1)

\* impl From<&String> for ValkeyValue
FromString(s) == parse_value(lines(s), 0).val

\* ValkeyValue::parse_all_values: `while lines.peek().is_some()`
RECURSIVE parse_all_from(_, _, _)
parse_all_from(ls, i, acc) ==
    IF i < Len(ls)
    THEN LET r == parse_value(ls, i) IN parse_all_from(ls, r.next, Append(acc, r.val))
    ELSE acc

parse_all_values(input) == parse_all_from(lines(input), 0, <<>>)

----------------------------------------------------------------------------
(* The byte parser ValkeyValue::parse_value_from_bytes *)

VOk(val, pos) == [ok |-> TRUE, val |-> val, pos |-> pos, err |-> ""]
VErr(msg) == [ok |-> FALSE, val |-> Null, pos |-> 0, err |-> msg]

RECURSIVE parse_value_from_bytes(_, _)
RECURSIVE parse_bytes_elems(_, _, _, _)

\* `for _ in 0..count { let (element, new_pos) = parse_value_from_bytes(data, pos)?; .. }`
parse_bytes_elems(data, pos, n, acc) ==
    IF n = 0 THEN VOk(acc, pos)
    ELSE LET r == parse_value_from_bytes(data, pos)
         IN  IF r.ok THEN parse_bytes_elems(data, r.pos, n - 1, Append(acc, r.val))
             ELSE r

parse_value_from_bytes(data, start) ==
    IF start >= Len(data) THEN VErr("Incomplete data")
    ELSE LET first_byte == At(data, start)
             end_pos == find_crlf(data, start)
             content == Slice(data, start + 1, end_pos)
         IN
         CASE first_byte = "+" ->
                IF end_pos = None THEN VErr("Incomplete simple string")
                ELSE IF ~Utf8Valid(content) THEN VErr("Invalid UTF-8 in simple string")
                ELSE VOk(SimpleString(content), end_pos + 2)
           [] first_byte = "-" ->
                IF end_pos = None THEN VErr("Incomplete simple error")
                ELSE IF ~Utf8Valid(content) THEN VErr("Invalid UTF-8 in simple error")
                ELSE VOk(SimpleError(content), end_pos + 2)
           [] first_byte = ":" ->
                IF end_pos = None THEN VErr("Incomplete integer")
                ELSE IF ~Utf8Valid(content) THEN VErr("Invalid UTF-8 in integer")
                ELSE IF ~ParseI64(content).ok THEN VErr("Invalid integer")
                ELSE VOk(Integer(ParseI64(content).val), end_pos + 2)
           [] first_byte = "$" ->
                IF end_pos = None THEN VErr("Incomplete bulk string header")
                ELSE IF ~Utf8Valid(content) THEN VErr("Invalid UTF-8 in bulk string header")
                ELSE IF ~ParseI64(content).ok THEN VErr("Invalid bulk string length")
                ELSE IF ParseI64(content).val < 0 THEN VOk(Null, end_pos + 2)
                ELSE LET data_start == end_pos + 2
                         data_end == data_start + ParseI64(content).val
                     IN  IF /\ data_end + 2 <= Len(data)
                            /\ At(data, data_end) = CR
                            /\ At(data, data_end + 1) = LF
                         THEN VOk(BulkString(Slice(data, data_start, data_end)),
                                  data_end + 2)
                         ELSE VErr("Incomplete bulk string data")
           [] first_byte = "*" ->
                IF end_pos = None THEN VErr("Incomplete array header")
                ELSE IF ~Utf8Valid(content) THEN VErr("Invalid UTF-8 in array header")
                ELSE IF ~ParseI64(content).ok THEN VErr("Invalid array count")
                ELSE IF ParseI64(content).val < 0 THEN VOk(Null, end_pos + 2)
                ELSE LET r == parse_bytes_elems(data, end_pos + 2,
                                                ParseI64(content).val, <<>>)
                     IN  IF r.ok THEN VOk(Array(r.val), r.pos) ELSE r
           [] OTHER -> VErr("Unknown RESP type")

parse_from_bytes(data) == parse_value_from_bytes(data, 0)

\* impl From<&str> for ValkeyValue
FromStr(s) ==
    IF parse_from_bytes(s).ok THEN parse_from_bytes(s).val
    ELSE parse_value(lines(s), 0).val

----------------------------------------------------------------------------
(* Reply frames the server may send.  ValidFrames holds one or more valid   *)
(* encodings of every type of the RESP2/RESP3 grammar; MalformedFrames are  *)
(* byte strings that are no RESP frame.                                     *)

ValidFrames ==
    { <<"+", "O", "K", CR, LF>>,
      <<"-", "E", CR, LF>>,
      <<":", "1", CR, LF>>,
      <<"$", "1", CR, LF, "a", CR, LF>>,
      <<"$", "0", CR, LF, CR, LF>>,
      <<"$", "-", "1", CR, LF>>,
      <<"$", "2", CR, LF, CR, LF, CR, LF>>,
      <<"$", "1", CR, LF, XFF, CR, LF>>,
      <<"*", "2", CR, LF, "$", "1", CR, LF, "a", CR, LF, ":", "1", CR, LF>>,
      <<"*", "0", CR, LF>>,
      <<"*", "-", "1", CR, LF>>,
      <<"_", CR, LF>>,
      <<"#", "t", CR, LF>>,
      <<",", "1", ".", "5", CR, LF>>,
      <<"(", "1", "2", CR, LF>>,
      <<"!", "1", CR, LF, "e", CR, LF>>,
      <<"=", "5", CR, LF, "t", "x", "t", ":", "a", CR, LF>>,
      <<"%", "1", CR, LF, "+", "k", CR, LF, ":", "1", CR, LF>>,
      <<"~", "1", CR, LF, "+", "a", CR, LF>>,
      <<">", "1", CR, LF, "+", "a", CR, LF>> }

MalformedFrames ==
    { <<"@", "b", CR, LF>>,
      <<"$", "x", CR, LF>>,
      <<"$", "1", CR, LF, "a", "b", CR, LF>> }

\* the replies to the commands of a pipeline
PipeFrames ==
    { <<"+", "O", "K", CR, LF>>,
      <<":", "1", CR, LF>>,
      <<"$", "1", CR, LF, "a", CR, LF>>,
      <<"*", "1", CR, LF, ":", "1", CR, LF>> }

RECURSIVE SeqsOf(_, _)
SeqsOf(S, n) ==
    IF n = 0 THEN {<<>>}
    ELSE {Append(q, x) : q \in SeqsOf(S, n - 1), x \in S}

----------------------------------------------------------------------------
(* One session: a sequence of exec / exec_pipelined calls, each a write     *)
(* followed by the read loop of ValkeyClient::read_stream.                  *)

MaxCalls == 2
MaxPipeline == 2
BufSize == 8192
MAX_WOULD_BLOCK == 3

VARIABLES
    rs_pc,                    \* "idle", "reading" or "returned"
    stream_in,                \* bytes sent by the server and not yet read
    stream_closed,            \* the server has closed the connection
    response,                 \* the accumulator of read_stream
    consecutive_would_block,
    expected_count,           \* None, or Some(n) as n
    own,                      \* the reply frames to the current call's requests
    stale,                    \* the unread bytes found on the socket when the call began
    result,                   \* what the last call returned
    calls,                    \* calls made so far
    wb_run                    \* would-block reads of the call since its last read of data

rsVars == <<rs_pc, stream_in, stream_closed, response, consecutive_would_block,
            expected_count, own, stale, result, calls, wb_run>>

NoResult == [ok |-> FALSE, raw |-> <<>>, out |-> <<>>, err |-> "none"]

RsInit ==
    /\ rs_pc = "idle"
    /\ stream_in = <<>>
    /\ stream_closed = FALSE
    /\ response = <<>>
    /\ consecutive_would_block = 0
    /\ expected_count = None
    /\ own = <<>>
    /\ stale = <<>>
    /\ result = NoResult
    /\ calls = 0
    /\ wb_run = 0

RECURSIVE StringsOf(_)
StringsOf(vs) == IF vs = <<>> THEN <<>> ELSE <<to_string(Head(vs))>> \o StringsOf(Tail(vs))

\* what exec (expected_count = None) and exec_pipelined make of the bytes read
ExecOut(raw) == to_vec(FromStr(raw))
ExecPipelinedOut(raw) == StringsOf(parse_all_values(raw))

Returned(raw) ==
    [ok |-> TRUE, raw |-> raw,
     out |-> IF expected_count = None THEN ExecOut(raw) ELSE ExecPipelinedOut(raw),
     err |-> ""]

Failed(msg) == [ok |-> FALSE, raw |-> <<>>, out |-> <<>>, err |-> msg]

\* stream.write_all(command); stream.flush(): the server answers every request
\* of the call with one frame
BeginCall(frames, count) ==
    /\ rs_pc \in {"idle", "returned"}
    /\ ~stream_closed
    /\ calls' = calls + 1
    /\ rs_pc' = "reading"
    /\ own' = frames
    /\ stale' = stream_in
    /\ stream_in' = stream_in \o Concat(frames)
    /\ response' = <<>>
    /\ consecutive_would_block' = 0
    /\ expected_count' = count
    /\ result' = NoResult
    /\ wb_run' = 0
    /\ UNCHANGED stream_closed

\* exec: one request, one reply frame
Exec(replies) == \E f \in replies : BeginCall(<<f>>, None)

\* exec_pipelined: commands.len() requests, as many reply frames
ExecPipelined(replies) ==
    \E n \in 1 .. MaxPipeline : \E fs \in SeqsOf(replies, n) : BeginCall(fs, n)

\* the completeness test of the Ok(n) arm
ReadComplete(resp) ==
    /\ Utf8Valid(resp)
    /\ IF expected_count # None
       THEN count_complete_resp_messages(resp) >= expected_count
       ELSE is_complete_resp_message(resp)

\* a variant of the Ok(n) arm that leaves the counter as it is
KeepCounter(n) == n

\* `consecutive_would_block = 0` of the Ok(n) arm
ResetCounter(n) == 0

\* Ok(n), n > 0
ReadData ==
    /\ rs_pc = "reading"
    /\ \E n \in 1 .. Len(stream_in) :
          /\ n <= BufSize
          /\ LET resp == response \o SubSeq(stream_in, 1, n)
             IN  /\ stream_in' = SubSeq(stream_in, n + 1, Len(stream_in))
                 /\ response' = resp
                 /\ consecutive_would_block' = ResetCounter(consecutive_would_block)
                 /\ IF ReadComplete(resp)
                    THEN rs_pc' = "returned" /\ result' = Returned(resp)
                    ELSE UNCHANGED <<rs_pc, result>>
    /\ wb_run' = 0
    /\ UNCHANGED <<stream_closed, expected_count, own, stale, calls>>

\* Ok(0): the connection is closed and every byte sent has been read
ReadEof ==
    /\ rs_pc = "reading"
    /\ stream_closed
    /\ stream_in = <<>>
    /\ rs_pc' = "returned"
    /\ result' = IF response # <<>>
                 THEN IF Utf8Valid(response) THEN Returned(response)
                      ELSE Failed("InvalidData")
                 ELSE Failed("Connection closed by server without response")
    /\ UNCHANGED <<stream_in, stream_closed, response, consecutive_would_block,
                   expected_count, own, stale, calls, wb_run>>

\* Err(WouldBlock | TimedOut): nothing arrived within the read timeout
ReadWouldBlock ==
    /\ rs_pc = "reading"
    /\ consecutive_would_block' = consecutive_would_block + 1
    /\ IF consecutive_would_block + 1 >= MAX_WOULD_BLOCK
       THEN /\ rs_pc' = "returned"
            /\ result' = IF response = <<>>
                         THEN Failed("Server did not respond within timeout period")
                         ELSE Failed("Server response incomplete - timeout while waiting for more data")
       ELSE UNCHANGED <<rs_pc, result>>
    /\ wb_run' = wb_run + 1
    /\ UNCHANGED <<stream_in, stream_closed, response, expected_count, own, stale,
                   calls>>

\* Err(ConnectionReset | ConnectionAborted)
ReadReset ==
    /\ rs_pc = "reading"
    /\ stream_closed
    /\ rs_pc' = "returned"
    /\ result' = Failed("Connection lost to server")
    /\ UNCHANGED <<stream_in, stream_closed, response, consecutive_would_block,
                   expected_count, own, stale, calls, wb_run>>

\* the server closes the connection, with all or only a part of its unread
\* bytes sent
ServerClose ==
    /\ ~stream_closed
    /\ rs_pc = "reading"
    /\ stream_closed' = TRUE
    /\ \E k \in 0 .. Len(stream_in) : stream_in' = SubSeq(stream_in, 1, k)
    /\ UNCHANGED <<rs_pc, response, consecutive_would_block, expected_count,
                   own, stale, result, calls, wb_run>>

----------------------------------------------------------------------------
(* ValkeyClient::new: the handshake AUTH, SELECT, PING, HELLO 3.            *)

S_OK == <<"O", "K">>
S_PONG == <<"P", "O", "N", "G">>
S_AUTH == <<"A", "U", "T", "H">>
S_SELECT == <<"S", "E", "L", "E", "C", "T">>
S_PING == <<"P", "I", "N", "G">>
S_HELLO == <<"H", "E", "L", "L", "O">>
S_server == <<"s", "e", "r", "v", "e", "r">>
S_version == <<"v", "e", "r", "s", "i", "o", "n">>
S_mode == <<"m", "o", "d", "e">>
S_valkey == <<"v", "a", "l", "k", "e", "y">>
S_redis == <<"r", "e", "d", "i", "s">>
S_keydb == <<"k", "e", "y", "d", "b">>
S_unknown == <<"u", "n", "k", "n", "o", "w", "n">>
S_standalone == <<"s", "t", "a", "n", "d", "a", "l", "o", "n", "e">>

MIN_VALKEY_VERSION == <<8, 0, 0>>
SUPPORTED_SERVERS == {S_valkey}
PARTIALLY_SUPPORTED_SERVERS == {S_redis}

\* Option<T>: <<>> is None, <<x>> is Some(x)
IsSome(o) == o # <<>>
UnwrapOr(o, d) == IF o = <<>> THEN d ELSE o[1]

\* `${}\r\n{}\r\n` of a command argument
CmdArg(b) == <<"$">> \o NatStr(Len(b)) \o <<CR, LF>> \o b \o <<CR, LF>>

\* a variant that issues AUTH only for a URL with both a username and a password
NeedsAuthBoth(url) == IsSome(url.password) /\ IsSome(url.username)

\* the condition under which AUTH is issued
NeedsAuth(url) == IsSome(url.password) \/ IsSome(url.username)

auth_cmd(url) ==
    LET user == UnwrapOr(url.username, <<>>)
        pass == UnwrapOr(url.password, <<>>)
    IN  IF user # <<>>
        THEN <<"*", "3", CR, LF>> \o CmdArg(S_AUTH) \o CmdArg(user) \o CmdArg(pass)
        ELSE <<"*", "2", CR, LF>> \o CmdArg(S_AUTH) \o CmdArg(pass)

select_cmd(url) == <<"*", "2", CR, LF>> \o CmdArg(S_SELECT) \o CmdArg(NatStr(url.db[1]))

ping_cmd == <<"*", "1", CR, LF>> \o CmdArg(S_PING)

hello_cmd == <<"*", "2", CR, LF>> \o CmdArg(S_HELLO) \o CmdArg(<<"3">>)

\* a variant that takes any reply for the expected one
ReplyIsAny(res, expected) == TRUE

\* `ValkeyValue::from(&res).to_string() != expected` is false
ReplyIs(res, expected) == to_string(FromString(res)) = expected

\* (a0, a1, a2) < (b0, b1, b2) of tuples
TupleLt(a, b) ==
    \/ a[1] < b[1]
    \/ a[1] = b[1] /\ a[2] < b[2]
    \/ a[1] = b[1] /\ a[2] = b[2] /\ a[3] < b[3]

\* version.split('.').nth(k).unwrap_or("0").parse::<u8>()
VersionPart(version, k) ==
    LET parts == split(version, ".")
    IN  ParseU8(IF k <= Len(parts) THEN parts[k] ELSE <<"0">>)

HelloOk(server_type, partially) ==
    [ok |-> TRUE, err |-> "", server_type |-> server_type, partially |-> partially]
HelloErr(msg) == [ok |-> FALSE, err |-> msg, server_type |-> <<>>, partially |-> FALSE]

\* the version gate of the Maps arm
VersionTooOld(version_number) == TupleLt(version_number, MIN_VALKEY_VERSION)

\* a variant of the server gate that lets every other server in as partially
\* supported
ServerGateLax(server) == IF server \in SUPPORTED_SERVERS THEN "ok" ELSE "partial"

\* the server gate of the Maps arm: "ok", "partial" or "reject"
ServerGate(server) ==
    IF server \in SUPPORTED_SERVERS THEN "ok"
    ELSE IF server \in PARTIALLY_SUPPORTED_SERVERS THEN "partial"
    ELSE "reject"

\* (major, minor, patch) of the version string
VersionNumber(vs) ==
    <<VersionPart(vs, 1).val, VersionPart(vs, 2).val, VersionPart(vs, 3).val>>

\* server_type_str: the `mode` entry, "unknown" without one
ServerTypeStr(map) ==
    IF IsSome(MapGet(map, BulkString(S_mode)))
    THEN to_string(MapGet(map, BulkString(S_mode))[1])
    ELSE S_unknown

\* the Maps arm once the `server` and `version` entries are found
MapsArmGates(map, server, vs) ==
    IF \E k \in 1 .. 3 : ~VersionPart(vs, k).ok THEN HelloErr("ParseIntError")
    ELSE IF VersionTooOld(VersionNumber(vs)) THEN HelloErr("UnsupportedValkeyServerError")
    ELSE IF ServerGate(server) = "reject" THEN HelloErr("UnsupportedValkeyServerError")
    ELSE HelloOk(ServerTypeStr(map), ServerGate(server) = "partial")

\* the Maps arm of `match server_response`
MapsArm(map) ==
    IF ~IsSome(MapGet(map, BulkString(S_server))) THEN HelloErr("ServerConnectionFailed")
    ELSE IF ~IsSome(MapGet(map, BulkString(S_version)))
    THEN HelloErr("GetServerVersionFailed")
    ELSE MapsArmGates(map, to_string(MapGet(map, BulkString(S_server))[1]),
                      to_string(MapGet(map, BulkString(S_version))[1]))

\* the `match server_response` of new, up to the events it sends
HelloMatch(server_response) ==
    IF server_response.type = "Maps" THEN MapsArm(server_response.v)
    ELSE HelloErr("UnsupportedValkeyServerError")

HelloCheck(res) == HelloMatch(FromString(res))

(* The replies of the server.  A reply to AUTH, SELECT or PING is a frame; a  *)
(* reply to HELLO 3 is described by [kind, server, version, mode] and sent as *)
(* the map frame HelloWire, or is a frame that is no map.                     *)

WireBulk(b) == <<"$">> \o NatStr(Len(b)) \o <<CR, LF>> \o b \o <<CR, LF>>

SimpleReplies ==
    { <<"+", "O", "K", CR, LF>>,
      <<"$", "2", CR, LF, "O", "K", CR, LF>>,
      <<"+", "P", "O", "N", "G", CR, LF>>,
      <<"-", "E", "R", "R", CR, LF>>,
      <<"$", "-", "1", CR, LF>> }

Versions ==
    { <<"8", ".", "0", ".", "0">>, <<"8">>, <<"8", ".", "1">>,
      <<"7", ".", "2", ".", "4">>, <<"7", ".", "2", "5", "5", ".", "2", "5", "5">>,
      <<"9", ".", "0", ".", "1">>, <<"2", "5", "5", ".", "0", ".", "0">>,
      <<"2", "5", "6", ".", "0", ".", "0">>, <<"8", ".", "x">>,
      <<"0", ".", "9", ".", "9">>, <<"8", ".", "0", ".", "0", ".", "r", "c">> }

HelloReplies ==
    [kind : {"map"}, server : {<<S_valkey>>, <<S_redis>>, <<S_keydb>>, <<>>},
     version : {<<w>> : w \in Versions} \cup {<<>>}, mode : {<<>>, <<S_standalone>>}]
    \cup [kind : {"array", "simple", "error"}, server : {<<>>}, version : {<<>>},
          mode : {<<>>}]

HelloWire(d) ==
    LET n == (IF IsSome(d.server) THEN 1 ELSE 0) + (IF IsSome(d.version) THEN 1 ELSE 0)
               + (IF IsSome(d.mode) THEN 1 ELSE 0)
    IN  CASE d.kind = "map" ->
                <<"%">> \o NatStr(n) \o <<CR, LF>>
                \o (IF IsSome(d.server) THEN WireBulk(S_server) \o WireBulk(d.server[1])
                    ELSE <<>>)
                \o (IF IsSome(d.version) THEN WireBulk(S_version) \o WireBulk(d.version[1])
                    ELSE <<>>)
                \o (IF IsSome(d.mode) THEN WireBulk(S_mode) \o WireBulk(d.mode[1])
                    ELSE <<>>)
          [] d.kind = "array" -> <<"*", "1", CR, LF>> \o WireBulk(S_valkey)
          [] d.kind = "simple" -> <<"+", "O", "K", CR, LF>>
          [] OTHER -> <<"-", "E", "R", "R", CR, LF>>

Urls == [username : {<<>>, <<<<"u">>>>}, password : {<<>>, <<<<"p">>>>},
         db : {<<>>, <<0>>, <<2>>}]

VARIABLES
    h_pc,        \* the position in new
    h_url,       \* the parsed ValkeyUrl
    h_sent,      \* the commands written to the stream, in order
    h_replies,   \* the outcome of read_stream for each command written
    h_hello,     \* the description of the HELLO reply read, <<>> before
    h_events,    \* the events received from the sender
    h_rx,        \* the receiver of the channel is alive
    h_result     \* what new returned

hVars == <<h_pc, h_url, h_sent, h_replies, h_hello, h_events, h_rx, h_result>>

NotReturned == [ret |-> "none", err |-> "", server_type |-> <<>>]
ReturnOk(server_type) == [ret |-> "Ok", err |-> "", server_type |-> server_type]
ReturnErr(msg) == [ret |-> "Err", err |-> msg, server_type |-> <<>>]

ReadOk(raw) == [ok |-> TRUE, raw |-> raw]
ReadErr == [ok |-> FALSE, raw |-> <<>>]

HInit ==
    /\ h_pc = "new"
    /\ h_url \in Urls
    /\ h_sent = <<>>
    /\ h_replies = <<>>
    /\ h_hello = <<>>
    /\ h_events = <<>>
    /\ h_rx \in BOOLEAN
    /\ h_result = NotReturned

Return(r) == h_pc' = "done" /\ h_result' = r

\* the receiver of the channel is dropped
DropReceiver ==
    /\ h_pc # "done"
    /\ h_rx
    /\ h_rx' = FALSE
    /\ UNCHANGED <<h_pc, h_url, h_sent, h_replies, h_hello, h_events, h_result>>

\* sender.send(ShowInfo(connecting))?; parse_valkey_url; connect_timeout; set timeouts
Connect ==
    /\ h_pc = "new"
    /\ IF ~h_rx
       THEN Return(ReturnErr("Internal")) /\ UNCHANGED h_events
       ELSE /\ h_events' = Append(h_events, "ShowInfo(Connecting)")
            /\ \/ Return(ReturnErr("Io"))
               \/ h_pc' = "auth" /\ UNCHANGED h_result
    /\ UNCHANGED <<h_url, h_sent, h_replies, h_hello, h_rx>>

\* stream.write_all(command) of read_stream
Write(at, cmd, next) ==
    /\ h_pc = at
    /\ h_sent' = Append(h_sent, cmd)
    /\ h_pc' = next
    /\ UNCHANGED <<h_url, h_replies, h_hello, h_events, h_rx, h_result>>

Skip(at, next) ==
    /\ h_pc = at
    /\ h_pc' = next
    /\ UNCHANGED <<h_url, h_sent, h_replies, h_hello, h_events, h_rx, h_result>>

\* the read loop of read_stream returns r; an Ok reply must display as `expected`
ReadExpect(at, r, expected, failure, next) ==
    /\ h_pc = at
    /\ h_replies' = Append(h_replies, r)
    /\ IF ~r.ok THEN Return(ReturnErr("Io"))
       ELSE IF ~ReplyIs(r.raw, expected) THEN Return(ReturnErr(failure))
       ELSE h_pc' = next /\ UNCHANGED h_result
    /\ UNCHANGED <<h_url, h_sent, h_hello, h_events, h_rx>>

ReadOutcomes == {ReadErr} \cup {ReadOk(b) : b \in SimpleReplies}

WriteAuth == NeedsAuth(h_url) /\ Write("auth", auth_cmd(h_url), "auth_read")
SkipAuth == ~NeedsAuth(h_url) /\ Skip("auth", "select")
ReadAuth == \E r \in ReadOutcomes : ReadExpect("auth_read", r, S_OK, "AuthFailed", "select")

WriteSelect == IsSome(h_url.db) /\ Write("select", select_cmd(h_url), "select_read")
SkipSelect == ~IsSome(h_url.db) /\ Skip("select", "ping")
ReadSelect ==
    \E r \in ReadOutcomes : ReadExpect("select_read", r, S_OK, "SelectDbFail", "ping")

WritePing == Write("ping", ping_cmd, "ping_read")
ReadPing ==
    \E r \in ReadOutcomes :
        ReadExpect("ping_read", r, S_PONG, "ServerConnectionFailed", "hello")

WriteHello == Write("hello", hello_cmd, "hello_read")

\* the events of an accepted HELLO reply, in the order they are sent
AcceptEvents(partially) ==
    (IF partially THEN <<"ShowInfo(PartiallySupported)">> ELSE <<>>)
    \o <<"SetMainWindow(Connection)">>
    \o (IF partially THEN <<>> ELSE <<"CloseInfo">>)

\* read_stream(hello_cmd) and the match on the reply; the events of an
\* accepted reply are sent one by one afterwards
ReadHelloWith(r, d) ==
    /\ h_pc = "hello_read"
    /\ h_replies' = Append(h_replies, r)
    /\ h_hello' = d
    /\ IF ~r.ok THEN Return(ReturnErr("Io"))
       ELSE IF ~HelloCheck(r.raw).ok THEN Return(ReturnErr(HelloCheck(r.raw).err))
       ELSE h_pc' = "events" /\ UNCHANGED h_result
    /\ UNCHANGED <<h_url, h_sent, h_events, h_rx>>

ReadHello ==
    \/ ReadHelloWith(ReadErr, <<>>)
    \/ \E d \in HelloReplies : ReadHelloWith(ReadOk(HelloWire(d)), <<d>>)

\* the next `sender.send(..)?` of an accepted reply: the events sent since
\* ShowInfo(Connecting) tell which one it is; Ok(Self {..}) follows the last
SendEvent ==
    /\ h_pc = "events"
    /\ LET c == HelloCheck(h_replies[Len(h_replies)].raw)
           evs == AcceptEvents(c.partially)
       IN  IF ~h_rx THEN Return(ReturnErr("Internal")) /\ UNCHANGED h_events
           ELSE /\ h_events' = Append(h_events, evs[Len(h_events)])
                /\ IF Len(h_events) = Len(evs) THEN Return(ReturnOk(c.server_type))
                   ELSE UNCHANGED <<h_pc, h_result>>
    /\ UNCHANGED <<h_url, h_sent, h_replies, h_hello, h_rx>>

----------------------------------------------------------------------------
(* The pure functions applied to bounded inputs: the concatenation of up to *)
(* MaxFrames valid frames, whole or cut to a strict prefix, or one buffer   *)
(* whose first byte is no RESP type byte.                                   *)

UnknownTypeFrames ==
    { <<"@", "b", "a", "d", CR, LF>>,
      <<"S", "o", "m", "e", " ", "i", CR, LF>>,
      <<"a">> }

MaxFrames == 2

VARIABLES
    p_frames,     \* the frames of the input
    p_cut,        \* the number of bytes of their concatenation in the buffer
    p_out         \* the function applied last, and what it returned

pVars == <<p_frames, p_cut, p_out>>

p_buf == SubSeq(Concat(p_frames), 1, p_cut)

NoOut == [op |-> "none", n |-> 0, ok |-> FALSE, err |-> "", val |-> Null]

PInit ==
    /\ p_frames \in UNION {SeqsOf(ValidFrames, n) : n \in 1 .. MaxFrames}
                      \cup {<<f>> : f \in UnknownTypeFrames}
    /\ p_cut = Len(Concat(p_frames))
    /\ p_out = NoOut

\* the buffer holds only a strict prefix of the input
Truncate ==
    /\ p_out.op = "none"
    /\ p_cut = Len(Concat(p_frames))
    /\ \E k \in 0 .. Len(Concat(p_frames)) - 1 : p_cut' = k
    /\ UNCHANGED <<p_frames, p_out>>

CountFrames ==
    /\ p_out.op = "none"
    /\ p_out' = [op |-> "count", n |-> count_complete_resp_messages(p_buf),
                 ok |-> TRUE, err |-> "", val |-> Null]
    /\ UNCHANGED <<p_frames, p_cut>>

ParseResp ==
    /\ p_out.op = "none"
    /\ LET r == parse_resp_value(p_buf, 0)
       IN  p_out' = [op |-> "parse_resp_value", n |-> r.pos, ok |-> r.ok, err |-> r.err,
                     val |-> Null]
    /\ UNCHANGED <<p_frames, p_cut>>

ParseBytes ==
    /\ p_out.op = "none"
    /\ LET r == parse_value_from_bytes(p_buf, 0)
       IN  p_out' = [op |-> "parse_value_from_bytes", n |-> r.pos, ok |-> r.ok,
                     err |-> r.err, val |-> r.val]
    /\ UNCHANGED <<p_frames, p_cut>>

\* ValkeyValue::from(input) of an input that is a str
ConvertFrom ==
    /\ p_out.op = "none"
    /\ Utf8Valid(p_buf)
    /\ p_out' = [op |-> "from", n |-> 0, ok |-> TRUE, err |-> "", val |-> FromStr(p_buf)]
    /\ UNCHANGED <<p_frames, p_cut>>

----------------------------------------------------------------------------
(* The stream lock: `stream: RwLock<TcpStream>` of ValkeyClient.  Threads     *)
(* that share one client call set, get, exec and exec_pipelined; every call   *)
(* takes the write guard, runs read_stream on the guarded stream and drops    *)
(* the guard when it returns.  l_log is the order of the operations on the    *)
(* socket.                                                                    *)

Threads == {"ui", "worker"}
Free == "free"

MaxLockCalls == 3
MaxReads == 2

VARIABLES
    l_pc,       \* per thread: "idle", "write", "read"
    l_op,       \* per thread: the method it is in
    l_call,     \* per thread: the number of its call
    l_lock,     \* the holder of the write guard, or Free
    l_reads,    \* the reads of the call that holds the guard
    l_ret,      \* per thread: how its last call returned
    l_log,      \* the operations on the socket, [call, op]
    l_calls     \* calls begun

lVars == <<l_pc, l_op, l_call, l_lock, l_reads, l_ret, l_log, l_calls>>

LInit ==
    /\ l_pc = [t \in Threads |-> "idle"]
    /\ l_op = [t \in Threads |-> "none"]
    /\ l_call = [t \in Threads |-> 0]
    /\ l_lock = Free
    /\ l_reads = 0
    /\ l_ret = [t \in Threads |-> "none"]
    /\ l_log = <<>>
    /\ l_calls = 0

\* a variant of the guard that does not wait for the holder
CanLockAlways(t) == TRUE

\* self.stream.write() returns once no other guard is alive
CanLock(t) == l_lock = Free

\* `let mut stream = self.stream.write();` of method op
Lock(t, op) ==
    /\ l_pc[t] = "idle"
    /\ l_calls < MaxLockCalls
    /\ CanLock(t)
    /\ l_lock' = t
    /\ l_pc' = [l_pc EXCEPT ![t] = "write"]
    /\ l_op' = [l_op EXCEPT ![t] = op]
    /\ l_calls' = l_calls + 1
    /\ l_call' = [l_call EXCEPT ![t] = l_calls + 1]
    /\ l_ret' = [l_ret EXCEPT ![t] = "none"]
    /\ l_reads' = 0
    /\ UNCHANGED l_log

LockSet == \E t \in Threads : Lock(t, "set")
LockGet == \E t \in Threads : Lock(t, "get")
LockExecRaw == \E t \in Threads : Lock(t, "exec")
LockExecRawPipelined == \E t \in Threads : Lock(t, "exec_pipelined")

\* the method returns: the guard `stream` goes out of scope
Unlock(t, ret) ==
    /\ l_pc' = [l_pc EXCEPT ![t] = "idle"]
    /\ l_ret' = [l_ret EXCEPT ![t] = ret]
    /\ l_lock' = IF l_lock = t THEN Free ELSE l_lock

\* stream.write_all(command) and flush of read_stream; `?` returns on failure
StreamWrite ==
    \E t \in Threads :
        /\ l_pc[t] = "write"
        /\ l_log' = Append(l_log, [call |-> l_call[t], op |-> "write"])
        /\ \/ l_pc' = [l_pc EXCEPT ![t] = "read"] /\ UNCHANGED <<l_ret, l_lock>>
           \/ Unlock(t, "Err")
        /\ UNCHANGED <<l_op, l_call, l_reads, l_calls>>

\* one stream.read of the loop of read_stream: more bytes are needed, the
\* response is complete, or the loop ends with an error
StreamRead ==
    \E t \in Threads :
        /\ l_pc[t] = "read"
        /\ l_log' = Append(l_log, [call |-> l_call[t], op |-> "read"])
        /\ l_reads' = l_reads + 1
        /\ \/ l_reads + 1 < MaxReads /\ UNCHANGED <<l_pc, l_ret, l_lock>>
           \/ Unlock(t, "Ok")
           \/ Unlock(t, "Err")
        /\ UNCHANGED <<l_op, l_call, l_calls>>

----------------------------------------------------------------------------
(* Values: two wire encodings are parsed, by ValkeyValue::from(&str) or by   *)
(* the line parser, the first value is written back with to_resp and parsed *)
(* again, and the two values are compared and hashed.                       *)

\* encodings of the value types beside those of ValidFrames: maps that
\* differ in a value or a key, sets with and without duplicates, a nested
\* array, an array with a null element, and an array, a set, a map and a
\* push that hold a bulk string whose payload is CR LF, a verbatim string
\* with `:` in its data
ValueFrames ==
    {f \in ValidFrames : Utf8Valid(f)}
    \cup { <<"#", "f", CR, LF>>,
           <<"%", "1", CR, LF, "+", "k", CR, LF, ":", "2", CR, LF>>,
           <<"%", "1", CR, LF, "+", "j", CR, LF, ":", "1", CR, LF>>,
           <<"~", "2", CR, LF, ":", "1", CR, LF, ":", "1", CR, LF>>,
           <<"~", "2", CR, LF, ":", "1", CR, LF, ":", "2", CR, LF>>,
           <<"~", "3", CR, LF, ":", "1", CR, LF, ":", "2", CR, LF, ":", "1", CR, LF>>,
           <<"*", "1", CR, LF, "*", "1", CR, LF, ":", "1", CR, LF>>,
           <<"*", "2", CR, LF, "$", "-", "1", CR, LF, ":", "1", CR, LF>>,
           <<"*", "1", CR, LF, "$", "2", CR, LF, CR, LF, CR, LF>>,
           <<"~", "1", CR, LF, "$", "2", CR, LF, CR, LF, CR, LF>>,
           <<"%", "1", CR, LF, "+", "k", CR, LF, "$", "2", CR, LF, CR, LF, CR, LF>>,
           <<">", "1", CR, LF, "$", "1", CR, LF, "a", CR, LF>>,
           <<"=", "7", CR, LF, "t", "x", "t", ":", "a", ":", "b", CR, LF>> }

\* what impl Hash feeds the hasher: the discriminant, then the fields; every
\* Maps feeds the same sentinel, a Double its bits
RECURSIVE hash(_)
hash(x) ==
    CASE x.type \in {"Array", "Sets", "Pushes"} ->
            <<x.type, Len(x.v), [i \in 1 .. Len(x.v) |-> hash(x.v[i])]>>
      [] x.type = "Maps" -> <<x.type, "0x7fffffff">>
      [] OTHER -> <<x.type, x.v>>

VARIABLES
    v_pc,       \* "wire", "parsed", "encoded", "reparsed", "compared"
    v_a, v_b,   \* the two encodings
    v_parser,   \* "from_str" or "parse_value"
    v_x, v_y,   \* the values parsed from v_a and v_b
    v_resp,     \* to_resp of v_x
    v_back,     \* the value parsed from v_resp
    v_cmp       \* [eq, hash_eq] of v_x and v_y

vVars == <<v_pc, v_a, v_b, v_parser, v_x, v_y, v_resp, v_back, v_cmp>>

NoCmp == [eq |-> FALSE, hash_eq |-> FALSE]

VInit ==
    /\ v_pc = "wire"
    /\ v_a \in ValueFrames
    /\ v_b \in ValueFrames
    /\ v_parser = "none"
    /\ v_x = Null /\ v_y = Null
    /\ v_resp = <<>>
    /\ v_back = Null
    /\ v_cmp = NoCmp

VIdle ==
    /\ v_pc = "wire"
    /\ v_a = <<>> /\ v_b = <<>>
    /\ v_parser = "none"
    /\ v_x = Null /\ v_y = Null
    /\ v_resp = <<>>
    /\ v_back = Null
    /\ v_cmp = NoCmp

Parser(name, s) == IF name = "from_str" THEN FromStr(s) ELSE FromString(s)

ParseWith(name) ==
    /\ v_pc = "wire"
    /\ v_pc' = "parsed"
    /\ v_parser' = name
    /\ v_x' = Parser(name, v_a)
    /\ v_y' = Parser(name, v_b)
    /\ UNCHANGED <<v_a, v_b, v_resp, v_back, v_cmp>>

\* ValkeyValue::from(input)
ParseFromStr == ParseWith("from_str")

\* ValkeyValue::parse_value(&mut input.lines())
ParseLines == ParseWith("parse_value")

\* result.to_resp()
Encode ==
    /\ v_pc = "parsed"
    /\ v_pc' = "encoded"
    /\ v_resp' = to_resp(v_x)
    /\ UNCHANGED <<v_a, v_b, v_parser, v_x, v_y, v_back, v_cmp>>

\* the parser applied to the output of to_resp
Reparse ==
    /\ v_pc = "encoded"
    /\ v_pc' = "reparsed"
    /\ v_back' = Parser(v_parser, v_resp)
    /\ UNCHANGED <<v_a, v_b, v_parser, v_x, v_y, v_resp, v_cmp>>

\* v_x == v_y, and the hashes of the two
Compare ==
    /\ v_pc = "reparsed"
    /\ v_pc' = "compared"
    /\ v_cmp' = [eq |-> ValueEq(v_x, v_y), hash_eq |-> hash(v_x) = hash(v_y)]
    /\ UNCHANGED <<v_a, v_b, v_parser, v_x, v_y, v_resp, v_back>>

----------------------------------------------------------------------------
(* The command tokenizer ValkeyClient::split_commands and the request that   *)
(* exec and exec_pipelined build from its tokens.  A command line is a       *)
(* String: a sequence of chars.  E_ACUTE is a char of two UTF-8 bytes.       *)

E_ACUTE == "e_acute"

\* str::as_bytes / String::len: the UTF-8 bytes of a string
char_bytes(ch) == IF ch = E_ACUTE THEN <<"xC3", "xA9">> ELSE <<ch>>

RECURSIVE as_bytes(_)
as_bytes(s) == IF s = <<>> THEN <<>> ELSE char_bytes(Head(s)) \o as_bytes(Tail(s))

\* a variant of the escape arm that keeps every escape as it was typed
unescaped_verbatim(next_ch) == <<"\\", next_ch>>

\* the chars pushed for `\` followed by next_ch inside quotes
unescaped(next_ch) ==
    CASE next_ch = "\"" -> <<"\"">>
      [] next_ch = "'" -> <<"'">>
      [] next_ch = "\\" -> <<"\\">>
      [] next_ch = "n" -> <<LF>>
      [] next_ch = "t" -> <<"TAB">>
      [] OTHER -> <<"\\", next_ch>>

\* the `while let Some(ch) = chars.next()` loop; i chars are consumed
RECURSIVE split_loop(_, _, _, _, _)
split_loop(input, i, res, current_token, in_quotes) ==
    IF i >= Len(input)
    THEN IF current_token # <<>> THEN Append(res, current_token) ELSE res
    ELSE LET ch == At(input, i) IN
         IF ch = "\\" /\ in_quotes
         THEN IF i + 1 < Len(input)
              THEN split_loop(input, i + 2, res,
                              current_token \o unescaped(At(input, i + 1)), in_quotes)
              ELSE split_loop(input, i + 1, res, current_token, in_quotes)
         ELSE IF ch \in {"\"", "'"}
         THEN IF in_quotes
              THEN split_loop(input, i + 1, Append(res, current_token), <<>>, FALSE)
              ELSE split_loop(input, i + 1, res, current_token, TRUE)
         ELSE IF ch = " " /\ ~in_quotes
         THEN IF current_token # <<>>
              THEN split_loop(input, i + 1, Append(res, current_token), <<>>, in_quotes)
              ELSE split_loop(input, i + 1, res, current_token, in_quotes)
         ELSE split_loop(input, i + 1, res, Append(current_token, ch), in_quotes)

split_commands(input) == split_loop(input, 0, <<>>, <<>>, FALSE)

\* a variant of the bulk header that counts chars
bulk_string_chars(command) ==
    <<"$">> \o NatStr(Len(command)) \o <<CR, LF>> \o as_bytes(command) \o <<CR, LF>>

\* format!("${}\r\n{command}\r\n", command.len())
bulk_string(command) ==
    <<"$">> \o NatStr(Len(as_bytes(command))) \o <<CR, LF>> \o as_bytes(command) \o <<CR, LF>>

RECURSIVE bulk_strings(_)
bulk_strings(commands) ==
    IF commands = <<>> THEN <<>>
    ELSE bulk_string(Head(commands)) \o bulk_strings(Tail(commands))

\* the resp_string of one command line: `*N\r\n` and a bulk string per token
resp_string(command) ==
    LET individual_commands == split_commands(trim(command))
    IN  <<"*">> \o NatStr(Len(individual_commands)) \o <<CR, LF>>
            \o bulk_strings(individual_commands)

RECURSIVE resp_strings(_)
resp_strings(commands) ==
    IF commands = <<>> THEN <<>>
    ELSE resp_string(Head(commands)) \o resp_strings(Tail(commands))

\* The command lines.  A line is made of up to MaxItems items: a word, a
\* space, or a quoted segment [open, atoms, close] whose atoms are plain
\* chars and escapes.  An atom is [raw, out]: the chars typed and the chars
\* meant.
MaxItems == 3

Plain(ch) == [raw |-> <<ch>>, out |-> <<ch>>]

Esc(ch, out) == [raw |-> <<"\\", ch>>, out |-> out]

Word(ch) == [kind |-> "word", open |-> "", atoms |-> <<Plain(ch)>>, close |-> ""]

Space == [kind |-> "space", open |-> "", atoms |-> <<Plain(" ")>>, close |-> ""]

Quoted(open, atoms, close) ==
    [kind |-> "quoted", open |-> open, atoms |-> atoms, close |-> close]

Items ==
    { Word("a"), Word("\\"), Word(E_ACUTE), Space,
      Quoted("\"", <<>>, "\""),
      Quoted("\"", <<Plain("b"), Plain(" "), Plain("c")>>, "\""),
      Quoted("'", <<Plain(" "), Plain(E_ACUTE)>>, "'"),
      Quoted("\"", <<Plain("b"), Plain(" ")>>, "'"),
      Quoted("\"", <<Esc("\"", <<"\"">>)>>, "\""),
      Quoted("'", <<Esc("'", <<"'">>)>>, "'"),
      Quoted("\"", <<Esc("\\", <<"\\">>)>>, "\""),
      Quoted("\"", <<Esc("n", <<LF>>)>>, "\""),
      Quoted("\"", <<Esc("t", <<"TAB">>), Plain(" ")>>, "\""),
      Quoted("\"", <<Esc("x", <<"\\", "x">>)>>, "\"") }

RECURSIVE ItemSeqs(_)
ItemSeqs(n) ==
    IF n = 0 THEN {<<>>}
    ELSE LET shorter == ItemSeqs(n - 1)
         IN  shorter \cup {Append(s, it) : s \in {t \in shorter : Len(t) = n - 1}, it \in Items}

RECURSIVE RawAtoms(_)
RawAtoms(atoms) == IF atoms = <<>> THEN <<>> ELSE Head(atoms).raw \o RawAtoms(Tail(atoms))

\* the chars typed for an item
Typed(it) ==
    IF it.kind = "quoted" THEN <<it.open>> \o RawAtoms(it.atoms) \o <<it.close>>
    ELSE RawAtoms(it.atoms)

RECURSIVE Line(_)
Line(items) == IF items = <<>> THEN <<>> ELSE Typed(Head(items)) \o Line(Tail(items))

\* the second line of a pipeline of two
SecondLine == <<"b", " ", "\"", "c", "\"">>

VARIABLES
    c_pc,       \* "line", "split", "exec", "exec_pipelined"
    c_items,    \* the items the line is made of
    c_commands, \* the lines passed to the call
    c_argv,     \* the res of split_commands
    c_written   \* the bytes written to the socket

cVars == <<c_pc, c_items, c_commands, c_argv, c_written>>

CInit ==
    /\ c_pc = "line"
    /\ c_items \in ItemSeqs(MaxItems)
    /\ c_commands = <<>>
    /\ c_argv = <<>>
    /\ c_written = <<>>

CIdle ==
    /\ c_pc = "line"
    /\ c_items = <<>>
    /\ c_commands = <<>>
    /\ c_argv = <<>>
    /\ c_written = <<>>

\* Self::split_commands(input)
SplitCommands ==
    /\ c_pc = "line"
    /\ c_pc' = "split"
    /\ c_commands' = <<Line(c_items)>>
    /\ c_argv' = split_commands(Line(c_items))
    /\ UNCHANGED <<c_items, c_written>>

\* exec(commands): the request handed to exec_raw, which writes its bytes
ExecCommand ==
    /\ c_pc = "line"
    /\ c_pc' = "exec"
    /\ c_commands' = <<Line(c_items)>>
    /\ c_written' = resp_string(Line(c_items))
    /\ UNCHANGED <<c_items, c_argv>>

\* exec_pipelined(commands) of one or two lines
ExecPipelinedCommands ==
    /\ c_pc = "line"
    /\ c_pc' = "exec_pipelined"
    /\ \E more \in {<<>>, <<SecondLine>>} :
          /\ c_commands' = <<Line(c_items)>> \o more
          /\ c_written' = resp_strings(<<Line(c_items)>> \o more)
    /\ UNCHANGED <<c_items, c_argv>>

----------------------------------------------------------------------------
(* ValkeyUrl: [alias, host, port, username, password, db, connection_type,   *)
(* last_connection].  An Option is a sequence of no or one element: <<>> is  *)
(* None and <<x>> is Some(x).  Strings are sequences of chars.               *)

U16Max == 65535

\* str::parse::<u16>
ParseU16(s) ==
    LET r == ParseUsize(s)
    IN  IF r.ok /\ r.val <= U16Max THEN r ELSE NumErr

\* str::rfind(c): the 1-based index of the last c, 0 for None
rfind(s, c) ==
    LET hits == {i \in 1 .. Len(s) : s[i] = c}
    IN  IF hits = {} THEN 0 ELSE CHOOSE i \in hits : \A j \in hits : j <= i

starts_with(s, prefix) ==
    Len(s) >= Len(prefix) /\ SubSeq(s, 1, Len(prefix)) = prefix

UrlPrefix == <<"v", "a", "l", "k", "e", "y", ":", "/", "/">>

\* ValkeyUrl::connection_string
connection_string(self) ==
    UrlPrefix
    \o (IF self.username # <<>> \/ self.password # <<>>
        THEN (IF self.username # <<>> THEN self.username[1] ELSE <<>>)
             \o (IF self.password # <<>> THEN <<":">> \o self.password[1] ELSE <<>>)
             \o <<"@">>
        ELSE <<>>)
    \o self.host \o <<":">> \o NatStr(self.port)
    \o (IF self.db # <<>> THEN <<"/">> \o NatStr(self.db[1]) ELSE <<>>)

is_leap(year) == (year % 4 = 0 /\ year % 100 # 0) \/ year % 400 = 0

\* the `loop` over the years: [year, remaining_days]
RECURSIVE year_loop(_, _)
year_loop(year, remaining_days) ==
    LET days_in_year == IF is_leap(year) THEN 366 ELSE 365
    IN  IF remaining_days < days_in_year
        THEN [year |-> year, remaining_days |-> remaining_days]
        ELSE year_loop(year + 1, remaining_days - days_in_year)

days_in_months(leap) ==
    <<31, IF leap THEN 29 ELSE 28, 31, 30, 31, 30, 31, 31, 30, 31, 30, 31>>

\* the `for &days_in_month in &days_in_months` loop: [month, remaining_days]
RECURSIVE month_loop(_, _, _)
month_loop(months, month, remaining_days) ==
    IF months = <<>> \/ remaining_days < Head(months)
    THEN [month |-> month, remaining_days |-> remaining_days]
    ELSE month_loop(Tail(months), month + 1, remaining_days - Head(months))

\* {:04} and {:02}
ZeroPad(n, width) ==
    LET digits == NatStr(n)
    IN  [i \in 1 .. (IF width > Len(digits) THEN width - Len(digits) ELSE 0) |-> "0"]
            \o digits

\* the "{:04}-{:02}-{:02} {:02}:{:02}:{:02}" of a timestamp of the `last` key
format_last(timestamp) ==
    LET remaining_secs == timestamp % 86400
        y == year_loop(1970, timestamp \div 86400)
        m == month_loop(days_in_months(is_leap(y.year)), 1, y.remaining_days)
    IN  ZeroPad(y.year, 4) \o <<"-">> \o ZeroPad(m.month, 2) \o <<"-">>
            \o ZeroPad(m.remaining_days + 1, 2) \o <<" ">>
            \o ZeroPad(remaining_secs \div 3600, 2) \o <<":">>
            \o ZeroPad((remaining_secs % 3600) \div 60, 2) \o <<":">>
            \o ZeroPad(remaining_secs % 60, 2)

\* `for metadata in metadata_part.split('|')`: [connection_type, last_connection]
RECURSIVE metadata_loop(_, _)
metadata_loop(parts, acc) ==
    IF parts = <<>> THEN acc
    ELSE LET metadata == Head(parts)
             colon_idx == IndexOf(metadata, ":")
             key == SubSeq(metadata, 1, colon_idx - 1)
             value == SubSeq(metadata, colon_idx + 1, Len(metadata))
         IN  IF colon_idx = 0 THEN metadata_loop(Tail(parts), acc)
             ELSE IF key = <<"t", "y", "p", "e">>
             THEN metadata_loop(Tail(parts), [acc EXCEPT !.connection_type = <<value>>])
             ELSE IF key = <<"l", "a", "s", "t">>
             THEN metadata_loop(Tail(parts),
                      [acc EXCEPT !.last_connection =
                          IF ParseUsize(value).ok THEN <<format_last(ParseUsize(value).val)>>
                          ELSE <<value>>])
             ELSE metadata_loop(Tail(parts), acc)

NoMetadata == [connection_type |-> <<>>, last_connection |-> <<>>]

\* the part of parse_valkey_url after the metadata tail and the prefix:
\* `/db`, the userinfo before `@`, host and `:port`
parse_authority(after_prefix) ==
    LET slash_idx == IndexOf(after_prefix, "/")
        db_str == IF slash_idx > 0
                  THEN trim(SubSeq(after_prefix, slash_idx + 1, Len(after_prefix)))
                  ELSE <<>>
        no_db == IF slash_idx > 0 THEN SubSeq(after_prefix, 1, slash_idx - 1)
                 ELSE after_prefix
        at_idx == IndexOf(no_db, "@")
        userinfo == SubSeq(no_db, 1, at_idx - 1)
        trimmed == SubSeq(no_db, at_idx + 1, Len(no_db))
        colon_idx == IndexOf(userinfo, ":")
        user_part == IF colon_idx > 0 THEN SubSeq(userinfo, 1, colon_idx - 1) ELSE userinfo
        pass_part == IF colon_idx > 0 THEN SubSeq(userinfo, colon_idx + 1, Len(userinfo))
                     ELSE <<>>
        port_idx == rfind(trimmed, ":")
        port_ok == port_idx > 0 /\ ParseU16(SubSeq(trimmed, port_idx + 1, Len(trimmed))).ok
    IN  [ username |-> IF user_part # <<>> THEN <<user_part>> ELSE <<>>,
          password |-> IF pass_part # <<>> THEN <<pass_part>> ELSE <<>>,
          host |-> IF port_ok THEN SubSeq(trimmed, 1, port_idx - 1) ELSE trimmed,
          port |-> IF port_ok
                   THEN ParseU16(SubSeq(trimmed, port_idx + 1, Len(trimmed))).val
                   ELSE 6379,
          db |-> IF db_str # <<>> /\ ParseUsize(db_str).ok
                 THEN <<ParseUsize(db_str).val>> ELSE <<>> ]

InvalidInput == [ok |-> FALSE, err |-> "InvalidInput"]

\* ValkeyUrl::parse_valkey_url
parse_valkey_url(connection_name, url) ==
    LET pipe_idx == IndexOf(url, "|")
        url_to_parse == IF pipe_idx > 0 THEN SubSeq(url, 1, pipe_idx - 1) ELSE url
        meta == IF pipe_idx > 0
                THEN metadata_loop(split(SubSeq(url, pipe_idx + 1, Len(url)), "|"), NoMetadata)
                ELSE NoMetadata
        a == parse_authority(SubSeq(url_to_parse, Len(UrlPrefix) + 1, Len(url_to_parse)))
    IN  IF ~starts_with(url_to_parse, UrlPrefix) THEN InvalidInput
        ELSE [ok |-> TRUE,
              url |-> [alias |-> connection_name, host |-> a.host, port |-> a.port,
                       username |-> a.username, password |-> a.password, db |-> a.db,
                       connection_type |-> meta.connection_type,
                       last_connection |-> meta.last_connection]]

\* The URLs of the connection form: every field is free text or a number.
Hosts == {<<"h">>, <<":", ":", "1">>}
Ports == {6379, 1, U16Max}
Usernames == {<<>>, << <<"u">> >>}
Passwords == {<<>>, << <<"p">> >>, << <<"p", "@", "q">> >>, << <<"a", "/", "1">> >>,
              << <<"p", ":", "q">> >>}
Dbs == {<<>>, <<0>>, <<2>>}

\* metadata tails of a saved connection
Tails ==
    { <<>>,
      <<"|", "t", "y", "p", "e", ":", "s">>,
      <<"|", "l", "a", "s", "t", ":", "8", "6", "4", "0", "0", "|", "t", "y", "p", "e", ":", "s">>,
      <<"|", "l", "a", "s", "t", ":", "x", "|", "k">> }

VARIABLES
    u_pc,       \* "url", "text", "parsed"
    u_url,      \* the ValkeyUrl
    u_text,     \* its connection_string, and the tail it is stored with
    u_parsed    \* the result of parse_valkey_url

uVars == <<u_pc, u_url, u_text, u_parsed>>

UInit ==
    /\ u_pc = "url"
    /\ u_url \in [alias : {<<>>}, host : Hosts, port : Ports, username : Usernames,
                  password : Passwords, db : Dbs,
                  connection_type : {<<>>}, last_connection : {<<>>}]
    /\ u_text = <<>>
    /\ u_parsed = InvalidInput

UIdle ==
    /\ u_pc = "url"
    /\ u_url = <<>>
    /\ u_text = <<>>
    /\ u_parsed = InvalidInput

\* valkey_url.connection_string(), saved bare or with a metadata tail
ConnectionString ==
    /\ u_pc = "url"
    /\ u_pc' = "text"
    /\ \E tail \in Tails : u_text' = <<connection_string(u_url), tail>>
    /\ UNCHANGED <<u_url, u_parsed>>

\* ValkeyUrl::parse_valkey_url(None, text)
ParseValkeyUrl ==
    /\ u_pc = "text"
    /\ u_pc' = "parsed"
    /\ u_parsed' = parse_valkey_url(<<>>, u_text[1] \o u_text[2])
    /\ UNCHANGED <<u_url, u_text>>

----------------------------------------------------------------------------
(* CommandRegistry: `commands` is the Vec<Command> that load_from_directory *)
(* fills from the files of the directory and sorts by full_name.  A Command *)
(* is its full_name.                                                        *)

Alphabet ==
    <<" ", "A", "B", "C", "D", "E", "F", "G", "H", "I", "J", "K", "L", "M", "N", "O", "P",
      "Q", "R", "S", "T", "U", "V", "W", "X", "Y", "Z", "a", "e", "g", "s", "t", "x">>

\* the code point order of the chars of the names
char_ord(ch) == CHOOSE i \in 1 .. Len(Alphabet) : Alphabet[i] = ch

\* a.full_name.cmp(&b.full_name) is Less
str_lt(a, b) ==
    \/ Len(a) < Len(b) /\ SubSeq(b, 1, Len(a)) = a
    \/ \E k \in 1 .. Len(a) :
          /\ k <= Len(b)
          /\ SubSeq(a, 1, k - 1) = SubSeq(b, 1, k - 1)
          /\ char_ord(a[k]) < char_ord(b[k])

\* Vec::sort_by: insertion of each command into the sorted part
RECURSIVE insert_sorted(_, _)
insert_sorted(sorted, cmd) ==
    IF sorted = <<>> THEN <<cmd>>
    ELSE IF str_lt(cmd, Head(sorted)) THEN <<cmd>> \o sorted
    ELSE <<Head(sorted)>> \o insert_sorted(Tail(sorted), cmd)

RECURSIVE sort_by_full_name(_)
sort_by_full_name(commands) ==
    IF commands = <<>> THEN <<>>
    ELSE insert_sorted(sort_by_full_name(Tail(commands)), Head(commands))

\* fs::read_dir: the commands of the files in the order the directory gives
RECURSIVE read_dir(_)
read_dir(files) ==
    IF files = {} THEN <<>>
    ELSE LET f == CHOOSE x \in files : TRUE IN <<f>> \o read_dir(files \ {f})

\* CommandRegistry::load_from_directory
load_from_directory(files) == sort_by_full_name(read_dir(files))

\* str::to_uppercase
upper_char(ch) ==
    CASE ch = "a" -> "A" [] ch = "e" -> "E" [] ch = "g" -> "G" [] ch = "s" -> "S"
      [] ch = "t" -> "T" [] ch = "x" -> "X" [] OTHER -> ch

to_uppercase(s) == [i \in 1 .. Len(s) |-> upper_char(s[i])]

\* a variant of Vec::truncate that leaves the list as it is
truncate_none(v, len) == v

\* Vec::truncate(len)
truncate(v, len) == IF Len(v) > len THEN SubSeq(v, 1, len) ELSE v

MaxSuggestions == 10

\* CommandRegistry::get_suggestions
get_suggestions(commands, input) ==
    IF input = <<>> THEN <<>>
    ELSE truncate(SelectSeq(commands, LAMBDA cmd : starts_with(cmd, to_uppercase(input))),
                  MaxSuggestions)

\* The command files of a directory: up to MaxCommands commands named S and a
\* letter, and GET.  A directory holds at most one of them, or nearly all.
MaxCommands == 12

CommandNames ==
    {<<"S", Alphabet[i + 1]>> : i \in 1 .. MaxCommands} \cup {<<"G", "E", "T">>}

Directories ==
    {d \in SUBSET CommandNames :
        Cardinality(d) <= 1 \/ Cardinality(d) >= MaxCommands - 1}

Inputs ==
    { <<>>, <<"s">>, <<"S">>, <<"s", "a">>, <<"S", "B">>, <<"g">>, <<"G", "E", "T">>,
      <<"G", "E", "T", "S">>, <<"x">> }

VARIABLES
    g_commands,     \* the commands of the registry
    g_input,        \* the input of the last get_suggestions, <<"?">> before
    g_suggestions   \* what it returned

gVars == <<g_commands, g_input, g_suggestions>>

NoInput == <<"?">>

GInit ==
    /\ \E d \in Directories : g_commands = load_from_directory(d)
    /\ g_input = NoInput
    /\ g_suggestions = <<>>

GIdle ==
    /\ g_commands = <<>>
    /\ g_input = NoInput
    /\ g_suggestions = <<>>

\* registry.get_suggestions(input)
GetSuggestions ==
    /\ \E input \in Inputs :
          /\ g_input' = input
          /\ g_suggestions' = get_suggestions(g_commands, input)
    /\ UNCHANGED g_commands

----------------------------------------------------------------------------
(***************************************************************************)
(* The workbench: the command field, its history and the autocomplete      *)
(* popup of WorkbenchWindow::show.  Each action is one frame with one      *)
(* input event; no command is executing when a frame starts.               *)
(***************************************************************************)

\* the commands of the registry the workbench runs with
WorkbenchCommands ==
    load_from_directory({<<"S", "A">>, <<"S", "B">>, <<"S", "C">>, <<"G", "E", "T">>})

\* the texts the user types into the command field
TypedTexts == { <<>>, <<"s">>, <<"S", "B">>, <<"G", "E", "T">>, <<"x">> }

\* command_history holds at most HistoryCap commands
HistoryCap == 100

\* the model stops executing commands when the history holds MaxHistory
MaxHistory == 2

VARIABLES
    w_text,            \* workbench_state.resp_command
    w_index,           \* workbench_state.autocomplete_selected_index
    w_show,            \* workbench_state.show_autocomplete
    w_history,         \* workbench_state.command_history
    w_history_index,   \* workbench_state.history_index, <<>> is None, counted from 0
    w_temp,            \* workbench_state.temp_command
    w_panic            \* the frame indexed suggestions out of bounds

wVars == <<w_text, w_index, w_show, w_history, w_history_index, w_temp, w_panic>>

WInit ==
    /\ w_text = <<>>
    /\ w_index = 0
    /\ w_show = FALSE
    /\ w_history = <<>>
    /\ w_history_index = <<>>
    /\ w_temp = <<>>
    /\ w_panic = FALSE

WIdle == WInit

\* WorkbenchWindow::add_to_history: the history fields after it
add_to_history(history, command) ==
    LET pushed ==
            IF trim(command) # <<>> /\ (history = <<>> \/ history[Len(history)] # command)
            THEN history \o <<command>>
            ELSE history
    IN  [ command_history |-> IF Len(pushed) > HistoryCap THEN Tail(pushed) ELSE pushed,
          history_index   |-> <<>>,
          temp_command    |-> <<>> ]

\* WorkbenchWindow::navigate_history: the text and the history fields after it
navigate_history(text, history, history_index, temp, direction) ==
    LET same == [ resp_command |-> text, history_index |-> history_index,
                  temp_command |-> temp ]
    IN  IF history = <<>> THEN same
        ELSE IF history_index = <<>>
        THEN IF direction < 0
             THEN [ resp_command  |-> history[Len(history)],
                    history_index |-> <<Len(history) - 1>>,
                    temp_command  |-> text ]
             ELSE same
        ELSE IF direction < 0 /\ history_index[1] > 0
        THEN [ resp_command  |-> history[history_index[1]],
               history_index |-> <<history_index[1] - 1>>,
               temp_command  |-> temp ]
        ELSE IF direction > 0
        THEN IF history_index[1] < Len(history) - 1
             THEN [ resp_command  |-> history[history_index[1] + 2],
                    history_index |-> <<history_index[1] + 1>>,
                    temp_command  |-> temp ]
             ELSE [ resp_command  |-> temp,
                    history_index |-> <<>>,
                    temp_command  |-> temp ]
        ELSE same

\* the suggestions the frame computes when it starts
FrameSuggestions == get_suggestions(WorkbenchCommands, w_text)

\* the frame runs the command of the field: add_to_history(trim(resp_command))
Execute(text) ==
    LET h == add_to_history(w_history, trim(text))
    IN  /\ Len(h.command_history) <= MaxHistory
        /\ w_history' = h.command_history
        /\ w_history_index' = h.history_index
        /\ w_temp' = h.temp_command

\* a frame in which the user edits the text of the field
TypeText ==
    /\ ~w_panic
    /\ \E t \in TypedTexts \ {w_text} :
          /\ w_text' = t
          /\ w_index' = 0
    /\ w_show' = (FrameSuggestions # <<>>)
    /\ UNCHANGED <<w_history, w_history_index, w_temp, w_panic>>

\* a frame in which the user presses Enter in the single line field
KeyEnter ==
    /\ ~w_panic
    /\ IF FrameSuggestions # <<>>
       THEN IF w_index >= Len(FrameSuggestions)
            THEN /\ w_panic' = TRUE
                 /\ w_show' = TRUE
                 /\ UNCHANGED <<w_text, w_index, w_history, w_history_index, w_temp>>
            ELSE /\ w_text' = FrameSuggestions[w_index + 1] \o <<" ">>
                 /\ w_show' = FALSE
                 /\ w_index' = 0
                 /\ Execute(w_text')
                 /\ UNCHANGED w_panic
       ELSE /\ w_show' = FALSE
            /\ IF trim(w_text) # <<>>
               THEN Execute(w_text)
               ELSE UNCHANGED <<w_history, w_history_index, w_temp>>
            /\ UNCHANGED <<w_text, w_index, w_panic>>

\* a frame in which the user clicks the Exec button
ClickExec ==
    /\ ~w_panic
    /\ trim(w_text) # <<>>
    /\ w_show' = (FrameSuggestions # <<>>)
    /\ Execute(w_text)
    /\ UNCHANGED <<w_text, w_index, w_panic>>

\* a frame in which the user presses ArrowDown in the focused field
KeyArrowDown ==
    /\ ~w_panic
    /\ IF FrameSuggestions # <<>>
       THEN /\ w_index' = IF w_index + 1 < Len(FrameSuggestions) - 1
                          THEN w_index + 1 ELSE Len(FrameSuggestions) - 1
            /\ w_show' = TRUE
            /\ UNCHANGED <<w_text, w_history, w_history_index, w_temp, w_panic>>
       ELSE LET n == navigate_history(w_text, w_history, w_history_index, w_temp, 1)
            IN  /\ w_text' = n.resp_command
                /\ w_history_index' = n.history_index
                /\ w_temp' = n.temp_command
                /\ w_show' = FALSE
                /\ UNCHANGED <<w_index, w_history, w_panic>>

\* a frame in which the user presses ArrowUp in the focused field
KeyArrowUp ==
    /\ ~w_panic
    /\ IF FrameSuggestions # <<>>
       THEN /\ w_index' = IF w_index > 0 THEN w_index - 1 ELSE 0
            /\ w_show' = TRUE
            /\ UNCHANGED <<w_text, w_history, w_history_index, w_temp, w_panic>>
       ELSE LET n == navigate_history(w_text, w_history, w_history_index, w_temp, -1)
            IN  /\ w_text' = n.resp_command
                /\ w_history_index' = n.history_index
                /\ w_temp' = n.temp_command
                /\ w_show' = FALSE
                /\ UNCHANGED <<w_index, w_history, w_panic>>

\* a frame in which the user presses Tab in the focused field
KeyTab ==
    /\ ~w_panic
    /\ FrameSuggestions # <<>>
    /\ w_index' = (w_index + 1) % Len(FrameSuggestions)
    /\ w_show' = TRUE
    /\ UNCHANGED <<w_text, w_history, w_history_index, w_temp, w_panic>>

\* a frame in which the user presses Escape in the focused field
KeyEscape ==
    /\ ~w_panic
    /\ FrameSuggestions # <<>>
    /\ w_show' = FALSE
    /\ UNCHANGED <<w_text, w_index, w_history, w_history_index, w_temp, w_panic>>

\* a frame in which the user clicks a row of the popup
ClickSuggestion ==
    /\ ~w_panic
    /\ \E i \in 1 .. Len(FrameSuggestions) :
          w_text' = FrameSuggestions[i] \o <<" ">>
    /\ w_show' = FALSE
    /\ w_index' = 0
    /\ UNCHANGED <<w_history, w_history_index, w_temp, w_panic>>

\* a frame in which the user clicks a command of the history panel
ClickHistory ==
    /\ ~w_panic
    /\ \E i \in 1 .. Len(w_history) :
          /\ w_text' = w_history[i]
          /\ w_history_index' = <<i - 1>>
    /\ w_show' = (FrameSuggestions # <<>>)
    /\ UNCHANGED <<w_index, w_history, w_temp, w_panic>>

----------------------------------------------------------------------------
(***************************************************************************)
(* AppSettings: the servers map behind its RwLock and the file server.vks. *)
(* The connect thread runs update_server while the UI thread runs          *)
(* delete_server; a step is what a thread does while it holds a guard of   *)
(* the lock, or one operation on the file.                                 *)
(***************************************************************************)

Aliases == {<<"A">>, <<"B">>}

\* the url stored when the server was added and the one a connect stores
OldUrl == <<"o">>
NewUrl == <<"n", "n">>

\* the maps from some aliases to a url
ServerMaps == UNION {[d -> {OldUrl, NewUrl}] : d \in SUBSET Aliases}

\* HashMap::insert
insert(map, key, value) ==
    [k \in DOMAIN map \cup {key} |-> IF k = key THEN value ELSE map[k]]

\* HashMap::remove
remove(map, key) == [k \in DOMAIN map \ {key} |-> map[k]]

\* HashMap::iter: the entries in the order of the map, here the order of the aliases
RECURSIVE iter(_)
iter(map) ==
    IF DOMAIN map = {} THEN <<>>
    ELSE LET k == CHOOSE x \in DOMAIN map : \A y \in DOMAIN map : char_ord(x[1]) <= char_ord(y[1])
         IN  <<<<k, map[k]>>>> \o iter(remove(map, k))

\* the bytes save_to_file writes for the servers: writeln!(file, "{key}={value}")
RECURSIVE writeln_all(_)
writeln_all(entries) ==
    IF entries = <<>> THEN <<>>
    ELSE Head(entries)[1] \o <<"=">> \o Head(entries)[2] \o <<LF>>
         \o writeln_all(Tail(entries))

\* File::write from the start of a file opened by this thread: the bytes
\* replace those at their place, what the file holds beyond them stays
write_at_start(file, bytes) ==
    bytes \o SubSeq(file, Len(bytes) + 1, Len(file))

\* load_from_file: the servers read back from the lines of server.vks
RECURSIVE load_lines(_, _)
load_lines(ls, map) ==
    IF ls = <<>> THEN map
    ELSE LET line == Head(ls)
             eq_pos == IndexOf(line, "=")
         IN  IF trim(line) = <<>> \/ line[1] = "#" \/ eq_pos = 0
             THEN load_lines(Tail(ls), map)
             ELSE load_lines(Tail(ls),
                             insert(map, trim(SubSeq(line, 1, eq_pos - 1)),
                                    trim(SubSeq(line, eq_pos + 1, Len(line)))))

load_from_file(file) == load_lines(lines(file), << >>)

VARIABLES
    s_servers,     \* AppSettings.servers
    s_file,        \* the bytes of server.vks
    s_upd,         \* update_server on the connect thread: its alias and position
    s_del          \* delete_server on the UI thread: its alias and position

sVars == <<s_servers, s_file, s_upd, s_del>>

\* the settings were saved; both calls are about to start
SInit ==
    /\ s_servers \in ServerMaps
    /\ s_file = writeln_all(iter(s_servers))
    /\ s_upd \in [alias : Aliases, pc : {"check"}]
    /\ s_del \in [alias : Aliases, pc : {"remove"}]

SIdle ==
    /\ s_servers = << >>
    /\ s_file = <<>>
    /\ s_upd = [alias |-> <<"A">>, pc |-> "done"]
    /\ s_del = [alias |-> <<"A">>, pc |-> "done"]

\* update_server: if self.servers.read()?.contains_key(alias)
UpdateServerCheck ==
    /\ s_upd.pc = "check"
    /\ s_upd' = [s_upd EXCEPT !.pc = IF s_upd.alias \in DOMAIN s_servers
                                      THEN "insert" ELSE "done"]
    /\ UNCHANGED <<s_servers, s_file, s_del>>

\* update_server: self.servers.write()?.insert(alias, url)
UpdateServerInsert ==
    /\ s_upd.pc = "insert"
    /\ s_servers' = insert(s_servers, s_upd.alias, NewUrl)
    /\ s_upd' = [s_upd EXCEPT !.pc = "open"]
    /\ UNCHANGED <<s_file, s_del>>

\* update_server, save_to_file: the file is opened with truncate(true)
UpdateServerOpen ==
    /\ s_upd.pc = "open"
    /\ s_file' = <<>>
    /\ s_upd' = [s_upd EXCEPT !.pc = "write"]
    /\ UNCHANGED <<s_servers, s_del>>

\* update_server, save_to_file: the entries are written under the read guard
UpdateServerWrite ==
    /\ s_upd.pc = "write"
    /\ s_file' = write_at_start(s_file, writeln_all(iter(s_servers)))
    /\ s_upd' = [s_upd EXCEPT !.pc = "done"]
    /\ UNCHANGED <<s_servers, s_del>>

\* delete_server: self.servers.write()?.remove(alias)
DeleteServerRemove ==
    /\ s_del.pc = "remove"
    /\ s_servers' = remove(s_servers, s_del.alias)
    /\ s_del' = [s_del EXCEPT !.pc = "open"]
    /\ UNCHANGED <<s_file, s_upd>>

\* delete_server, save_to_file: the file is opened with truncate(true)
DeleteServerOpen ==
    /\ s_del.pc = "open"
    /\ s_file' = <<>>
    /\ s_del' = [s_del EXCEPT !.pc = "write"]
    /\ UNCHANGED <<s_servers, s_upd>>

\* delete_server, save_to_file: the entries are written under the read guard
DeleteServerWrite ==
    /\ s_del.pc = "write"
    /\ s_file' = write_at_start(s_file, writeln_all(iter(s_servers)))
    /\ s_del' = [s_del EXCEPT !.pc = "done"]
    /\ UNCHANGED <<s_servers, s_upd>>

----------------------------------------------------------------------------
(* Specifications.  Each specification runs one part of the program; the    *)
(* variables of the other parts rest in their idle state.                   *)

vars == <<rsVars, pVars, hVars, lVars, vVars, cVars, uVars, gVars, wVars, sVars>>

PIdle == p_frames = <<>> /\ p_cut = 0 /\ p_out = NoOut

HIdle ==
    /\ h_pc = "idle"
    /\ h_url = [username |-> <<>>, password |-> <<>>, db |-> <<>>]
    /\ h_sent = <<>>
    /\ h_replies = <<>>
    /\ h_hello = <<>>
    /\ h_events = <<>>
    /\ h_rx = TRUE
    /\ h_result = NotReturned

ReadStep ==
    \/ calls = 0 /\ Exec(ValidFrames \cup MalformedFrames) /\ UNCHANGED <<pVars, hVars, lVars, vVars, cVars, uVars, gVars, wVars, sVars>>
    \/ calls = 0 /\ ExecPipelined(PipeFrames) /\ UNCHANGED <<pVars, hVars, lVars, vVars, cVars, uVars, gVars, wVars, sVars>>
    \/ ReadData /\ UNCHANGED <<pVars, hVars, lVars, vVars, cVars, uVars, gVars, wVars, sVars>>
    \/ ReadEof /\ UNCHANGED <<pVars, hVars, lVars, vVars, cVars, uVars, gVars, wVars, sVars>>
    \/ ReadWouldBlock /\ UNCHANGED <<pVars, hVars, lVars, vVars, cVars, uVars, gVars, wVars, sVars>>
    \/ ReadReset /\ UNCHANGED <<pVars, hVars, lVars, vVars, cVars, uVars, gVars, wVars, sVars>>
    \/ ServerClose /\ UNCHANGED <<pVars, hVars, lVars, vVars, cVars, uVars, gVars, wVars, sVars>>

\* one call on a fresh connection, with every reply and every read outcome
ReadInit == RsInit /\ PIdle /\ HIdle /\ LInit /\ VIdle /\ CIdle /\ UIdle /\ GIdle /\ WIdle /\ SIdle

SpecRead == ReadInit /\ [][ReadStep]_vars

SessionStep ==
    \/ calls < MaxCalls /\ Exec(PipeFrames) /\ UNCHANGED <<pVars, hVars, lVars, vVars, cVars, uVars, gVars, wVars, sVars>>
    \/ calls < MaxCalls /\ ExecPipelined(PipeFrames) /\ UNCHANGED <<pVars, hVars, lVars, vVars, cVars, uVars, gVars, wVars, sVars>>
    \/ ReadData /\ UNCHANGED <<pVars, hVars, lVars, vVars, cVars, uVars, gVars, wVars, sVars>>
    \/ ReadWouldBlock /\ UNCHANGED <<pVars, hVars, lVars, vVars, cVars, uVars, gVars, wVars, sVars>>

\* a sequence of calls on one session
SpecSession == ReadInit /\ [][SessionStep]_vars

ParseStep ==
    \/ Truncate /\ UNCHANGED <<rsVars, hVars, lVars, vVars, cVars, uVars, gVars, wVars, sVars>>
    \/ CountFrames /\ UNCHANGED <<rsVars, hVars, lVars, vVars, cVars, uVars, gVars, wVars, sVars>>
    \/ ParseResp /\ UNCHANGED <<rsVars, hVars, lVars, vVars, cVars, uVars, gVars, wVars, sVars>>
    \/ ParseBytes /\ UNCHANGED <<rsVars, hVars, lVars, vVars, cVars, uVars, gVars, wVars, sVars>>
    \/ ConvertFrom /\ UNCHANGED <<rsVars, hVars, lVars, vVars, cVars, uVars, gVars, wVars, sVars>>

ParseInit == PInit /\ RsInit /\ HIdle /\ LInit /\ VIdle /\ CIdle /\ UIdle /\ GIdle /\ WIdle /\ SIdle

SpecParse == ParseInit /\ [][ParseStep]_vars

HandshakeStep ==
    \/ DropReceiver /\ UNCHANGED <<rsVars, pVars, lVars, vVars, cVars, uVars, gVars, wVars, sVars>>
    \/ Connect /\ UNCHANGED <<rsVars, pVars, lVars, vVars, cVars, uVars, gVars, wVars, sVars>>
    \/ WriteAuth /\ UNCHANGED <<rsVars, pVars, lVars, vVars, cVars, uVars, gVars, wVars, sVars>>
    \/ SkipAuth /\ UNCHANGED <<rsVars, pVars, lVars, vVars, cVars, uVars, gVars, wVars, sVars>>
    \/ ReadAuth /\ UNCHANGED <<rsVars, pVars, lVars, vVars, cVars, uVars, gVars, wVars, sVars>>
    \/ WriteSelect /\ UNCHANGED <<rsVars, pVars, lVars, vVars, cVars, uVars, gVars, wVars, sVars>>
    \/ SkipSelect /\ UNCHANGED <<rsVars, pVars, lVars, vVars, cVars, uVars, gVars, wVars, sVars>>
    \/ ReadSelect /\ UNCHANGED <<rsVars, pVars, lVars, vVars, cVars, uVars, gVars, wVars, sVars>>
    \/ WritePing /\ UNCHANGED <<rsVars, pVars, lVars, vVars, cVars, uVars, gVars, wVars, sVars>>
    \/ ReadPing /\ UNCHANGED <<rsVars, pVars, lVars, vVars, cVars, uVars, gVars, wVars, sVars>>
    \/ WriteHello /\ UNCHANGED <<rsVars, pVars, lVars, vVars, cVars, uVars, gVars, wVars, sVars>>
    \/ ReadHello /\ UNCHANGED <<rsVars, pVars, lVars, vVars, cVars, uVars, gVars, wVars, sVars>>
    \/ SendEvent /\ UNCHANGED <<rsVars, pVars, lVars, vVars, cVars, uVars, gVars, wVars, sVars>>

HandshakeInit == HInit /\ RsInit /\ PIdle /\ LInit /\ VIdle /\ CIdle /\ UIdle /\ GIdle /\ WIdle /\ SIdle

SpecHandshake == HandshakeInit /\ [][HandshakeStep]_vars

LockStep ==
    \/ LockSet /\ UNCHANGED <<rsVars, pVars, hVars, vVars, cVars, uVars, gVars, wVars, sVars>>
    \/ LockGet /\ UNCHANGED <<rsVars, pVars, hVars, vVars, cVars, uVars, gVars, wVars, sVars>>
    \/ LockExecRaw /\ UNCHANGED <<rsVars, pVars, hVars, vVars, cVars, uVars, gVars, wVars, sVars>>
    \/ LockExecRawPipelined /\ UNCHANGED <<rsVars, pVars, hVars, vVars, cVars, uVars, gVars, wVars, sVars>>
    \/ StreamWrite /\ UNCHANGED <<rsVars, pVars, hVars, vVars, cVars, uVars, gVars, wVars, sVars>>
    \/ StreamRead /\ UNCHANGED <<rsVars, pVars, hVars, vVars, cVars, uVars, gVars, wVars, sVars>>

\* concurrent calls on one client
LockInit == LInit /\ RsInit /\ PIdle /\ HIdle /\ VIdle /\ CIdle /\ UIdle /\ GIdle /\ WIdle /\ SIdle

SpecLock == LockInit /\ [][LockStep]_vars

ValueStep ==
    \/ ParseFromStr /\ UNCHANGED <<rsVars, pVars, hVars, lVars, cVars, uVars, gVars, wVars, sVars>>
    \/ ParseLines /\ UNCHANGED <<rsVars, pVars, hVars, lVars, cVars, uVars, gVars, wVars, sVars>>
    \/ Encode /\ UNCHANGED <<rsVars, pVars, hVars, lVars, cVars, uVars, gVars, wVars, sVars>>
    \/ Reparse /\ UNCHANGED <<rsVars, pVars, hVars, lVars, cVars, uVars, gVars, wVars, sVars>>
    \/ Compare /\ UNCHANGED <<rsVars, pVars, hVars, lVars, cVars, uVars, gVars, wVars, sVars>>

ValueInit == VInit /\ RsInit /\ PIdle /\ HIdle /\ LInit /\ CIdle /\ UIdle /\ GIdle /\ WIdle /\ SIdle

\* parsing, writing and comparing values
SpecValue == ValueInit /\ [][ValueStep]_vars

CommandStep ==
    \/ SplitCommands /\ UNCHANGED <<rsVars, pVars, hVars, lVars, vVars, uVars, gVars, wVars, sVars>>
    \/ ExecCommand /\ UNCHANGED <<rsVars, pVars, hVars, lVars, vVars, uVars, gVars, wVars, sVars>>
    \/ ExecPipelinedCommands /\ UNCHANGED <<rsVars, pVars, hVars, lVars, vVars, uVars, gVars, wVars, sVars>>

CommandInit == CInit /\ RsInit /\ PIdle /\ HIdle /\ LInit /\ VIdle /\ UIdle /\ GIdle /\ WIdle /\ SIdle

\* tokenizing command lines and building requests
SpecCommand == CommandInit /\ [][CommandStep]_vars

UrlStep ==
    \/ ConnectionString /\ UNCHANGED <<rsVars, pVars, hVars, lVars, vVars, cVars, gVars, wVars, sVars>>
    \/ ParseValkeyUrl /\ UNCHANGED <<rsVars, pVars, hVars, lVars, vVars, cVars, gVars, wVars, sVars>>

UrlInit == UInit /\ RsInit /\ PIdle /\ HIdle /\ LInit /\ VIdle /\ CIdle /\ GIdle /\ WIdle /\ SIdle

\* writing a ValkeyUrl as text and parsing the text
SpecUrl == UrlInit /\ [][UrlStep]_vars

RegistryStep ==
    \/ GetSuggestions /\ UNCHANGED <<rsVars, pVars, hVars, lVars, vVars, cVars, uVars, wVars, sVars>>

RegistryInit == GInit /\ RsInit /\ PIdle /\ HIdle /\ LInit /\ VIdle /\ CIdle /\ UIdle /\ WIdle /\ SIdle

\* asking a loaded registry for suggestions
SpecRegistry == RegistryInit /\ [][RegistryStep]_vars

WorkbenchStep ==
    \/ TypeText /\ UNCHANGED <<rsVars, pVars, hVars, lVars, vVars, cVars, uVars, gVars, sVars>>
    \/ KeyEnter /\ UNCHANGED <<rsVars, pVars, hVars, lVars, vVars, cVars, uVars, gVars, sVars>>
    \/ ClickExec /\ UNCHANGED <<rsVars, pVars, hVars, lVars, vVars, cVars, uVars, gVars, sVars>>
    \/ KeyArrowDown /\ UNCHANGED <<rsVars, pVars, hVars, lVars, vVars, cVars, uVars, gVars, sVars>>
    \/ KeyArrowUp /\ UNCHANGED <<rsVars, pVars, hVars, lVars, vVars, cVars, uVars, gVars, sVars>>
    \/ KeyTab /\ UNCHANGED <<rsVars, pVars, hVars, lVars, vVars, cVars, uVars, gVars, sVars>>
    \/ KeyEscape /\ UNCHANGED <<rsVars, pVars, hVars, lVars, vVars, cVars, uVars, gVars, sVars>>
    \/ ClickSuggestion /\ UNCHANGED <<rsVars, pVars, hVars, lVars, vVars, cVars, uVars, gVars, sVars>>
    \/ ClickHistory /\ UNCHANGED <<rsVars, pVars, hVars, lVars, vVars, cVars, uVars, gVars, sVars>>

WorkbenchInit == WInit /\ RsInit /\ PIdle /\ HIdle /\ LInit /\ VIdle /\ CIdle /\ UIdle /\ GIdle /\ SIdle

SpecWorkbench == WorkbenchInit /\ [][WorkbenchStep]_vars

SettingsStep ==
    \/ UpdateServerCheck /\ UNCHANGED <<rsVars, pVars, hVars, lVars, vVars, cVars, uVars, gVars, wVars>>
    \/ UpdateServerInsert /\ UNCHANGED <<rsVars, pVars, hVars, lVars, vVars, cVars, uVars, gVars, wVars>>
    \/ UpdateServerOpen /\ UNCHANGED <<rsVars, pVars, hVars, lVars, vVars, cVars, uVars, gVars, wVars>>
    \/ UpdateServerWrite /\ UNCHANGED <<rsVars, pVars, hVars, lVars, vVars, cVars, uVars, gVars, wVars>>
    \/ DeleteServerRemove /\ UNCHANGED <<rsVars, pVars, hVars, lVars, vVars, cVars, uVars, gVars, wVars>>
    \/ DeleteServerOpen /\ UNCHANGED <<rsVars, pVars, hVars, lVars, vVars, cVars, uVars, gVars, wVars>>
    \/ DeleteServerWrite /\ UNCHANGED <<rsVars, pVars, hVars, lVars, vVars, cVars, uVars, gVars, wVars>>

SettingsInit == SInit /\ RsInit /\ PIdle /\ HIdle /\ LInit /\ VIdle /\ CIdle /\ UIdle /\ GIdle /\ WIdle

SpecSettings == SettingsInit /\ [][SettingsStep]_vars

----------------------------------------------------------------------------
(* Claims *)

\* the name of a command: the first bulk string of its array
CommandName(cmd) == FromStr(cmd).v[1].v

SentNames == [i \in 1 .. Len(h_sent) |-> CommandName(h_sent[i])]

\* the commands a URL calls for
ExpectedHandshake(url) ==
    (IF url.username # <<>> \/ url.password # <<>> THEN <<S_AUTH>> ELSE <<>>)
    \o (IF url.db # <<>> THEN <<S_SELECT>> ELSE <<>>)
    \o <<S_PING, S_HELLO>>

IsPrefix(s, t) == Len(s) <= Len(t) /\ \A i \in 1 .. Len(s) : s[i] = t[i]

\* the replies that say OK, and the reply that says PONG
OkReplies == {<<"+", "O", "K", CR, LF>>, <<"$", "2", CR, LF, "O", "K", CR, LF>>}
PongReplies == {<<"+", "P", "O", "N", "G", CR, LF>>}

\* the reply r to the command `name` is the one the handshake asks for
SimpleAccepted(name, r) ==
    /\ r.ok
    /\ name \in {S_AUTH, S_SELECT} => r.raw \in OkReplies
    /\ name = S_PING => r.raw \in PongReplies

\* C1: the handshake commands written are a prefix of AUTH (iff the URL has a
\* username or a password), SELECT (iff it has a db), PING, HELLO 3; a command
\* is written only after the reply to the previous one was read and accepted;
\* new returns a session only after all of them, HELLO 3 last.
C1_HandshakeOrder ==
    /\ IsPrefix(SentNames, ExpectedHandshake(h_url))
    /\ Len(h_sent) <= Len(h_replies) + 1
    /\ \A i \in 1 .. Len(h_sent) - 1 : SimpleAccepted(SentNames[i], h_replies[i])
    /\ h_result.ret = "Ok"
       => /\ SentNames = ExpectedHandshake(h_url)
          /\ h_sent[Len(h_sent)] = hello_cmd
          /\ Len(h_replies) = Len(h_sent)

\* a session is returned for a URL with a password only and a db, after all
\* four commands
C1_Witness ==
    /\ h_result.ret = "Ok"
    /\ h_url.username = <<>> /\ h_url.password # <<>> /\ h_url.db # <<>>
    /\ SentNames = <<S_AUTH, S_SELECT, S_PING, S_HELLO>>

\* a component of a version string as a number; a missing one is 0
Component(version, k) ==
    LET parts == split(version, ".")
    IN  IF k <= Len(parts) THEN ParseUsize(parts[k]) ELSE [ok |-> TRUE, val |-> 0]

\* the lexicographic order of triples
LexLess(a, b) ==
    \E k \in 1 .. 3 : a[k] < b[k] /\ \A j \in 1 .. k - 1 : a[j] = b[j]

\* the HELLO reply d is a map with server valkey or redis and a version of at
\* least 8.0.0
HelloAcceptable(d) ==
    /\ d.kind = "map"
    /\ d.server \in {<<S_valkey>>, <<S_redis>>}
    /\ d.version # <<>>
    /\ \A k \in 1 .. 3 : Component(d.version[1], k).ok
    /\ ~LexLess(<<Component(d.version[1], 1).val, Component(d.version[1], 2).val,
                  Component(d.version[1], 3).val>>, <<8, 0, 0>>)

\* the i-th reply is a failure of its handshake step
RejectedReply(i) ==
    \/ ~h_replies[i].ok
    \/ ~SimpleAccepted(SentNames[i], h_replies[i])
    \/ SentNames[i] = S_HELLO /\ ~HelloAcceptable(h_hello[1])

\* C2: once a handshake step has failed, new has returned an error, has built
\* no client, and the failed step's command is the last one written.
C2_FailureStopsHandshake ==
    \A i \in 1 .. Len(h_replies) :
        RejectedReply(i)
        => /\ h_pc = "done"
           /\ h_result.ret = "Err"
           /\ Len(h_sent) = i

\* the SELECT reply of a handshake with AUTH is an error reply
C2_Witness ==
    /\ Len(h_replies) = 2
    /\ SentNames = <<S_AUTH, S_SELECT>>
    /\ h_replies[2].ok /\ h_replies[2].raw = <<"-", "E", "R", "R", CR, LF>>
    /\ h_result.ret = "Err"

\* C3: new returns a session only if the HELLO 3 reply is a map whose server
\* is valkey or redis and whose version, missing minor and patch taken as 0,
\* is at least (8,0,0); after any other HELLO reply it has failed.
C3_SessionOnlyIfSupported ==
    /\ h_result.ret = "Ok" => h_hello # <<>> /\ HelloAcceptable(h_hello[1])
    /\ (h_hello # <<>> /\ ~HelloAcceptable(h_hello[1])) => h_result.ret = "Err"

\* a session on a redis server whose version is just "8"
C3_Witness ==
    /\ h_result.ret = "Ok"
    /\ h_hello # <<>>
    /\ h_hello[1].server = <<S_redis>>
    /\ h_hello[1].version = <<<<"8">>>>

\* the entries of the log of one call are next to each other
Contiguous(log) ==
    \A i, k \in 1 .. Len(log) :
        (i < k /\ log[i].call = log[k].call)
        => \A j \in i .. k : log[j].call = log[i].call

\* the first operation of every call on the socket is its write
WriteFirst(log) ==
    \A i \in 1 .. Len(log) :
        log[i].op = "write" <=> (i = 1 \/ log[i - 1].call # log[i].call)

\* C4: the socket operations of two calls never interleave: the write and the
\* reads of a call are next to each other in the order of the operations, and
\* the lock is held by a call in progress only: it is free once every call has
\* returned, with a result or with an error.
C4_CallsSerialized ==
    /\ Contiguous(l_log)
    /\ WriteFirst(l_log)
    /\ \A t \in Threads : l_pc[t] = "idle" => l_lock # t
    /\ (\A t \in Threads : l_pc[t] = "idle") => l_lock = Free
    /\ Cardinality({t \in Threads : l_pc[t] # "idle"}) <= 1

\* two threads have each completed a call, one with a result and one with an
\* error, and the lock is free
C4_Witness ==
    /\ \E t, u \in Threads : t # u /\ l_ret[t] = "Ok" /\ l_ret[u] = "Err"
    /\ \A t \in Threads : l_pc[t] = "idle"
    /\ Len(l_log) >= 4
    /\ l_lock = Free

\* the error strings with which the parsers report that bytes are missing
IncompleteErrors ==
    { "Incomplete data", "Incomplete simple type", "Incomplete simple string",
      "Incomplete simple error", "Incomplete integer",
      "Incomplete bulk string header", "Incomplete bulk string data",
      "Incomplete array header", "Incomplete bulk error header",
      "Incomplete bulk error data", "Incomplete map header",
      "Incomplete collection header", "Incomplete verbatim string header",
      "Incomplete verbatim string data" }

TypeBytes == {"+", "-", ":", "$", "*", "_", "#", ",", "(", "!", "=", "%", "~", ">"}

\* C5: over any sequence of exec and exec_pipelined calls on one session, a call
\* finds no unread reply byte of an earlier call on the socket, and the bytes it
\* returns are exactly the replies to its own requests.
C5_OwnRepliesOnly ==
    /\ rs_pc = "reading" => stale = <<>>
    /\ (rs_pc = "returned" /\ result.ok) => result.raw = Concat(own)

\* C6: in single-command mode on a fresh connection that stays open, the read
\* loop returns a valid reply frame exactly when its last byte has been read:
\* it is not still reading once the whole frame is buffered, and what it
\* returns is the frame, whatever the split of the bytes across the reads.
C6_SingleFrameOnLastByte ==
    (expected_count = None /\ own # <<>> /\ own[1] \in ValidFrames /\ ~stream_closed)
    => /\ rs_pc = "reading" => response # own[1]
       /\ (rs_pc = "returned" /\ result.ok) => result.raw = own[1]

\* C7: count_complete_resp_messages returns N on the concatenation of N valid
\* frames and a number of 0 .. N-1 on any strict prefix of it.
C7_CountIsFrameCount ==
    (p_out.op = "count" /\ \A i \in 1 .. Len(p_frames) : p_frames[i] \in ValidFrames)
    => IF p_cut = Len(Concat(p_frames)) THEN p_out.n = Len(p_frames)
       ELSE p_out.n \in 0 .. Len(p_frames) - 1

RECURSIVE FlatLists(_)
FlatLists(frames) ==
    IF frames = <<>> THEN <<>>
    ELSE to_vec(FromStr(Head(frames))) \o FlatLists(Tail(frames))

\* C8: when all N reply frames arrive, exec_pipelined reads until the N frames
\* are buffered and returns the flat lists of the N frames, concatenated in
\* request order.
C8_PipelinedFlatLists ==
    (rs_pc = "returned" /\ expected_count # None /\ result.ok /\ ~stream_closed)
    => /\ result.raw = Concat(own)
       /\ result.out = FlatLists(own)

\* C9: on every strict prefix of a valid encoding the parsers report
\* Incomplete: never another error, never a value.
C9_PrefixIsIncomplete ==
    (/\ p_out.op \in {"parse_resp_value", "parse_value_from_bytes"}
     /\ Len(p_frames) = 1
     /\ p_frames[1] \in ValidFrames
     /\ p_cut < Len(Concat(p_frames)))
    => ~p_out.ok /\ p_out.err \in IncompleteErrors

\* the three malformed shapes of a buffer: an unknown leading byte, a
\* non-numeric length header, and a bulk payload with enough bytes buffered
\* that is not followed by CRLF
UnknownLeadingByte(data) == data # <<>> /\ data[1] \notin TypeBytes

NonNumericHeader(data) ==
    /\ data # <<>>
    /\ data[1] \in {"$", "*", "!", "=", "%", "~", ">"}
    /\ find_crlf(data, 0) # None
    /\ ~ParseI64(Slice(data, 1, find_crlf(data, 0))).ok

UnterminatedPayload(data) ==
    /\ data # <<>>
    /\ data[1] \in {"$", "!", "="}
    /\ find_crlf(data, 0) # None
    /\ LET length == ParseI64(Slice(data, 1, find_crlf(data, 0)))
           data_end == find_crlf(data, 0) + 2 + length.val
       IN  /\ length.ok /\ length.val >= 0
           /\ data_end + 2 <= Len(data)
           /\ ~(At(data, data_end) = CR /\ At(data, data_end + 1) = LF)

MalformedBuffer(data) ==
    UnknownLeadingByte(data) \/ NonNumericHeader(data) \/ UnterminatedPayload(data)

\* C10: the read loop issues no further read once the accumulated bytes are
\* malformed.
C10_MalformedEndsRead ==
    (rs_pc = "reading" /\ expected_count = None) => ~MalformedBuffer(response)

\* C11: a call whose connection was closed by the server after only a part of
\* its reply bytes was received does not return Ok.
C11_NoPartialResult ==
    (/\ rs_pc = "returned"
     /\ stream_closed
     /\ \A i \in 1 .. Len(own) : own[i] \in ValidFrames
     /\ Len(response) < Len(Concat(own)))
    => ~result.ok

TimeoutEmpty == "Server did not respond within timeout period"
TimeoutPartial == "Server response incomplete - timeout while waiting for more data"

\* C12: read_stream fails with a timed-out error exactly when three reads in a
\* row returned would-block or timed-out, no read of data in between; the
\* message tells an empty accumulator from a partial one.
C12_TimeoutAfterThree ==
    /\ wb_run <= 3
    /\ wb_run = 3 <=> (rs_pc = "returned" /\ result.err \in {TimeoutEmpty, TimeoutPartial})
    /\ (rs_pc = "returned" /\ result.err = TimeoutEmpty) => response = <<>>
    /\ (rs_pc = "returned" /\ result.err = TimeoutPartial) => response # <<>>

\* a call timed out with a part of the reply read, the third would-block
\* after the last read of data
C12_Witness ==
    /\ rs_pc = "returned"
    /\ result.err = TimeoutPartial
    /\ response # <<>> /\ Len(response) < Len(Concat(own))
    /\ wb_run = 3

\* the elements of a sequence, each once, in the order of first appearance
RECURSIVE DistinctFrom(_, _)
DistinctFrom(kept, rest) ==
    IF rest = <<>> THEN kept
    ELSE IF \E i \in 1 .. Len(kept) : kept[i] = Head(rest)
    THEN DistinctFrom(kept, Tail(rest))
    ELSE DistinctFrom(Append(kept, Head(rest)), Tail(rest))

Distinct(vs) == DistinctFrom(<<>>, vs)

\* a value with every Set in it deduplicated
RECURSIVE Normalize(_)
Normalize(x) ==
    CASE x.type \in {"Array", "Pushes"} ->
            [x EXCEPT !.v = [i \in 1 .. Len(x.v) |-> Normalize(x.v[i])]]
      [] x.type = "Sets" ->
            [x EXCEPT !.v = Distinct([i \in 1 .. Len(x.v) |-> Normalize(x.v[i])])]
      [] x.type = "Maps" ->
            [x EXCEPT !.v = [i \in 1 .. Len(x.v) |->
                                <<Normalize(x.v[i][1]), Normalize(x.v[i][2])>>]]
      [] OTHER -> x

\* structural equality: the same variant with equal fields, the entries of a
\* Maps taken as a set of key -> value pairs
RECURSIVE StructEq(_, _)
StructEq(a, b) ==
    /\ a.type = b.type
    /\ CASE a.type \in {"Array", "Sets", "Pushes"} ->
                /\ Len(a.v) = Len(b.v)
                /\ \A i \in 1 .. Len(a.v) : StructEq(a.v[i], b.v[i])
         [] a.type = "Maps" ->
                /\ \A i \in 1 .. Len(a.v) : \E j \in 1 .. Len(b.v) :
                       StructEq(a.v[i][1], b.v[j][1]) /\ StructEq(a.v[i][2], b.v[j][2])
                /\ \A j \in 1 .. Len(b.v) : \E i \in 1 .. Len(a.v) :
                       StructEq(a.v[i][1], b.v[j][1]) /\ StructEq(a.v[i][2], b.v[j][2])
         [] OTHER -> a.v = b.v

\* C13: parsing to_resp(v) of a parsed value v gives a value structurally
\* equal to v, Sets compared after deduplication and Maps as sets of pairs.
C13_RoundTrip ==
    v_pc \in {"reparsed", "compared"} => StructEq(Normalize(v_back), Normalize(v_x))

\* the encodings of the types that are to be byte-identical on re-encoding
ScalarArrayNullFrames ==
    {f \in ValueFrames : f[1] \in {"+", "-", ":", "#", ",", "(", "$", "!", "*", "_"}}

\* C14: to_resp(ValkeyValue::from(b)) is b for every encoding b of a simple
\* scalar, a bulk string or bulk error, an array, or a null.
C14_ByteIdentical ==
    (/\ v_pc \in {"encoded", "reparsed", "compared"}
     /\ v_parser = "from_str"
     /\ v_a \in ScalarArrayNullFrames)
    => v_resp = v_a

\* the elements of a Set frame: those of the array with the same body
SetElements(frame) == Parser("parse_value", <<"*">> \o Tail(frame)).v

\* the digits of the header of an encoding
HeaderDigits(resp) == Slice(resp, 1, find_crlf(resp, 0))

\* C15: a parsed Set holds each distinct element of its frame once, in the
\* order of first appearance, and to_resp writes the number of distinct
\* elements in the `~` header.
C15_SetDistinct ==
    (v_pc # "wire" /\ v_a[1] = "~")
    => /\ v_x.type = "Sets"
       /\ v_x.v = Distinct(SetElements(v_a))
       /\ v_pc # "parsed" => HeaderDigits(v_resp) = NatStr(Len(Distinct(SetElements(v_a))))

NullFrames ==
    {<<"$", "-", "1", CR, LF>>, <<"*", "-", "1", CR, LF>>, <<"_", CR, LF>>}
EmptyBulkFrame == <<"$", "0", CR, LF, CR, LF>>
EmptyArrayFrame == <<"*", "0", CR, LF>>

\* C16: `$-1`, `*-1` and `_` parse to Null, `$0` to an empty BulkString and
\* `*0` to an empty Array, and neither of the two equals Null.
C16_NullDistinct ==
    /\ (v_pc # "wire" /\ v_a \in NullFrames) => v_x.type = "Null"
    /\ (v_pc # "wire" /\ v_a = EmptyBulkFrame) => v_x.type = "BulkString" /\ v_x.v = <<>>
    /\ (v_pc # "wire" /\ v_a = EmptyArrayFrame) => v_x.type = "Array" /\ v_x.v = <<>>
    /\ (v_pc = "compared" /\ v_a \in {EmptyBulkFrame, EmptyArrayFrame} /\ v_b \in NullFrames)
       => ~v_cmp.eq

\* the empty array and `_` were parsed by ValkeyValue::from and compared
C16_Witness ==
    /\ v_pc = "compared"
    /\ v_parser = "from_str"
    /\ v_a = EmptyArrayFrame /\ v_b = <<"_", CR, LF>>
    /\ v_x.type = "Array" /\ v_y.type = "Null"
    /\ ~v_cmp.eq

\* C17: two values compare equal iff they are structurally equal, two Maps
\* iff they hold the same key -> value pairs; all Maps hash alike.
C17_EqualityStructural ==
    v_pc = "compared"
    => /\ v_cmp.eq <=> StructEq(v_x, v_y)
       /\ (v_x.type = "Maps" /\ v_y.type = "Maps") => v_cmp.hash_eq

\* the chars an item's atoms stand for
RECURSIVE Meant(_)
Meant(atoms) == IF atoms = <<>> THEN <<>> ELSE Head(atoms).out \o Meant(Tail(atoms))

Flush(token) == IF token = <<>> THEN <<>> ELSE <<token>>

\* the argv a line of items stands for: a word char joins the current token,
\* a space outside quotes ends it, a quoted segment joins it with its spaces
\* kept and its escapes replaced, and the closing quote ends it
RECURSIVE Tokens(_, _)
Tokens(items, current) ==
    IF items = <<>> THEN Flush(current)
    ELSE LET it == Head(items) IN
         CASE it.kind = "word" -> Tokens(Tail(items), current \o Meant(it.atoms))
           [] it.kind = "space" -> Flush(current) \o Tokens(Tail(items), <<>>)
           [] it.kind = "quoted" ->
                Flush(current \o Meant(it.atoms)) \o Tokens(Tail(items), <<>>)

NonEmptyToken(token) == token # <<>>

\* C18: split_commands keeps the spaces of a quoted segment inside one token
\* and splits on spaces outside quotes; outside quotes a backslash is an
\* ordinary char; inside quotes \" \' \\ \n \t become ", ', \, LF and TAB and
\* any other \X stays the two chars \X.  (Empty tokens are left to C19.)
C18_TokenizerQuoting ==
    c_pc = "split" => SelectSeq(c_argv, NonEmptyToken) = Tokens(c_items, <<>>)

C18_Witness ==
    /\ c_pc = "split"
    /\ c_commands = << <<"\\", " ", "\"", "\\", "t", " ", "\"">> >>
    /\ c_argv = << <<"\\">>, <<"TAB", " ">> >>

\* C19: the argv returned by split_commands holds no empty token, also when
\* the line holds an empty quoted segment
C19_NoEmptyToken ==
    c_pc = "split" => \A i \in 1 .. Len(c_argv) : c_argv[i] # <<>>

Utf8Width(ch) == IF ch = E_ACUTE THEN 2 ELSE 1

RECURSIVE ByteCount(_)
ByteCount(token) == IF token = <<>> THEN 0 ELSE Utf8Width(Head(token)) + ByteCount(Tail(token))

\* `*N\r\n` and `$len\r\n<token>\r\n` for each token, len in bytes
ArgvFrame(argv) ==
    <<"*">> \o NatStr(Len(argv)) \o <<CR, LF>>
        \o Concat([j \in 1 .. Len(argv) |->
                     <<"$">> \o NatStr(ByteCount(argv[j])) \o <<CR, LF>>
                         \o as_bytes(argv[j]) \o <<CR, LF>>])

DecimalDigits == {DigitChar(d) : d \in 0 .. 9}

DigitValue(ch) == CHOOSE d \in 0 .. 9 : DigitChar(d) = ch

\* the decimal number at pos (1-based) and the position after it
RECURSIVE ReadNat(_, _, _)
ReadNat(data, pos, acc) ==
    IF pos <= Len(data) /\ data[pos] \in DecimalDigits
    THEN ReadNat(data, pos + 1, acc * 10 + DigitValue(data[pos]))
    ELSE [n |-> acc, next |-> pos]

CrlfAt(data, pos) == pos + 1 <= Len(data) /\ data[pos] = CR /\ data[pos + 1] = LF

Undecodable == [ok |-> FALSE, out |-> <<>>, next |-> 0]

\* k bulk strings at pos, each read by its declared length
RECURSIVE ReadBulks(_, _, _)
ReadBulks(data, pos, k) ==
    IF k = 0 THEN [ok |-> TRUE, out |-> <<>>, next |-> pos]
    ELSE IF ~(pos <= Len(data) /\ data[pos] = "$") THEN Undecodable
    ELSE LET h == ReadNat(data, pos + 1, 0)
             from == h.next + 2
         IN  IF ~(h.next > pos + 1 /\ CrlfAt(data, h.next) /\ CrlfAt(data, from + h.n))
             THEN Undecodable
             ELSE LET rest == ReadBulks(data, from + h.n + 2, k - 1)
                  IN  IF rest.ok
                      THEN [rest EXCEPT !.out = <<SubSeq(data, from, from + h.n - 1)>> \o @]
                      ELSE Undecodable

\* the arrays of bulk strings from pos to the end of data
RECURSIVE ReadArrays(_, _)
ReadArrays(data, pos) ==
    IF pos > Len(data) THEN [ok |-> TRUE, out |-> <<>>, next |-> pos]
    ELSE IF data[pos] # "*" THEN Undecodable
    ELSE LET h == ReadNat(data, pos + 1, 0) IN
         IF ~(h.next > pos + 1 /\ CrlfAt(data, h.next)) THEN Undecodable
         ELSE LET bulks == ReadBulks(data, h.next + 2, h.n) IN
              IF ~bulks.ok THEN Undecodable
              ELSE LET rest == ReadArrays(data, bulks.next)
                   IN  IF rest.ok THEN [rest EXCEPT !.out = <<bulks.out>> \o @]
                       ELSE Undecodable

\* C20: exec writes `*N\r\n` and, for each token of split_commands in order,
\* `$len\r\n<token>\r\n` with len the byte length of the token; decoding the
\* request by declared lengths gives back the argv, and the request of exec
\* is one complete frame for the detector.  exec_pipelined writes one such
\* frame after another.
C20_RequestIsArgvFrame ==
    c_pc \in {"exec", "exec_pipelined"} =>
        LET argvs == [i \in 1 .. Len(c_commands) |-> split_commands(c_commands[i])]
            decoded == ReadArrays(c_written, 1)
        IN  /\ c_written = Concat([i \in 1 .. Len(c_commands) |-> ArgvFrame(argvs[i])])
            /\ decoded.ok
            /\ Len(decoded.out) = Len(c_commands)
            /\ \A i \in 1 .. Len(c_commands) :
                  /\ Len(decoded.out[i]) = Len(argvs[i])
                  /\ \A j \in 1 .. Len(argvs[i]) : decoded.out[i][j] = as_bytes(argvs[i][j])
            /\ c_pc = "exec" => is_complete_resp_message(c_written)

C20_Witness ==
    /\ c_pc = "exec"
    /\ c_commands = << <<E_ACUTE, " ", "\"", "b", " ", "c", "\"">> >>
    /\ c_written = <<"*", "2", CR, LF, "$", "2", CR, LF, "xC3", "xA9", CR, LF,
                     "$", "3", CR, LF, "b", " ", "c", CR, LF>>

UnknownType == "Unknown RESP type"

\* C22: the parsers report "Unknown RESP type" exactly for the buffers whose
\* first byte is none of the 14 type bytes, never for a buffer that starts
\* with one of them, and ValkeyValue::from of an input with an unknown first
\* byte is Null
C22_UnknownTypeExactly ==
    /\ (p_out.op \in {"parse_resp_value", "parse_value_from_bytes"} /\ p_buf # <<>>)
       => (p_out.err = UnknownType <=> p_buf[1] \notin TypeBytes)
    /\ (p_out.op = "from" /\ p_buf # <<>> /\ p_buf[1] \notin TypeBytes)
       => p_out.val = Null

\* the payloads of the bulk strings of an encoding, in order: the frames are
\* walked one after another, a `$` frame by its declared length
RECURSIVE DeclaredPayloads(_, _)
DeclaredPayloads(data, pos) ==
    IF pos > Len(data) THEN <<>>
    ELSE LET h == ReadNat(data, pos + 1, 0)
             from == h.next + 2
         IN  IF data[pos] \in {"$", "!", "="} /\ h.next > pos + 1
             THEN (IF data[pos] = "$" THEN <<SubSeq(data, from, from + h.n - 1)>> ELSE <<>>)
                      \o DeclaredPayloads(data, from + h.n + 2)
             ELSE DeclaredPayloads(data, find_crlf(data, pos - 1) + 3)

\* the payloads of the BulkStrings of a value, in order
RECURSIVE BulkPayloads(_)
RECURSIVE BulkPayloadsOf(_)
BulkPayloadsOf(vs) ==
    IF vs = <<>> THEN <<>> ELSE BulkPayloads(Head(vs)) \o BulkPayloadsOf(Tail(vs))

BulkPayloads(x) ==
    CASE x.type = "BulkString" -> <<x.v>>
      [] x.type \in {"Array", "Sets", "Pushes"} -> BulkPayloadsOf(x.v)
      [] x.type = "Maps" -> BulkPayloadsOf(Concat(x.v))
      [] OTHER -> <<>>

\* C26: wherever a bulk string occurs in a response, its parsed payload is the
\* `len` bytes that follow its header, also when the payload holds CR LF
C26_BulkByLength ==
    v_pc # "wire" => BulkPayloads(v_x) = DeclaredPayloads(v_a, 1)

\* the payload of a length-prefixed frame: the declared number of bytes
DeclaredPayload(frame) ==
    LET h == ReadNat(frame, 2, 0) IN SubSeq(frame, h.next + 2, h.next + 1 + h.n)

FirstColon(payload) == CHOOSE k \in 1 .. Len(payload) :
                           payload[k] = ":" /\ \A j \in 1 .. k - 1 : payload[j] # ":"

\* C27: a verbatim string is split at its first `:` only: the format is the
\* text before it and the data is everything after it
C27_VerbatimFirstColon ==
    (v_pc # "wire" /\ v_a[1] = "=")
    => LET payload == DeclaredPayload(v_a)
       IN  v_x = VerbatimString(SubSeq(payload, 1, FirstColon(payload) - 1),
                                SubSeq(payload, FirstColon(payload) + 1, Len(payload)))

\* the argv of a line of items when a quote ends the current token on either
\* side: the text of a quoted segment is a token of its own
RECURSIVE TokensSplitAtQuotes(_, _)
TokensSplitAtQuotes(items, current) ==
    IF items = <<>> THEN Flush(current)
    ELSE LET it == Head(items) IN
         CASE it.kind = "word" -> TokensSplitAtQuotes(Tail(items), current \o Meant(it.atoms))
           [] it.kind = "space" -> Flush(current) \o TokensSplitAtQuotes(Tail(items), <<>>)
           [] it.kind = "quoted" ->
                Flush(current) \o Flush(Meant(it.atoms))
                    \o TokensSplitAtQuotes(Tail(items), <<>>)

\* C28: in split_commands every unescaped quote char, opening as well as
\* closing, ends the token accumulated so far, also in the middle of a word;
\* text before an opening quote is never merged with the quoted text
C28_QuoteEndsToken ==
    c_pc = "split" => SelectSeq(c_argv, NonEmptyToken) = TokensSplitAtQuotes(c_items, <<>>)

SameFields(a, b) ==
    /\ a.host = b.host /\ a.port = b.port /\ a.username = b.username
    /\ a.password = b.password /\ a.db = b.db

\* C21: for every ValkeyUrl u, parse_valkey_url(connection_string(u)) succeeds
\* and yields the host, port, username, password and db of u, and
\* connection_string(u) holds no `|` metadata tail
C21_UrlRoundTrip ==
    /\ u_pc # "url" => "|" \notin SeqRange(u_text[1])
    /\ (u_pc = "parsed" /\ u_text[2] = <<>>) => u_parsed.ok /\ SameFields(u_parsed.url, u_url)

\* C23: a failed send to the observer channel does not fail new: new returns
\* the session or the error of the handshake, never the send failure
C23_SendFailureIgnored ==
    h_pc = "done" => h_result.err # "Internal"

EventAt(ev) == {i \in 1 .. Len(h_events) : h_events[i] = ev}

\* C24: a successful new emits ShowInfo(connecting) first and
\* SetMainWindow(Connection) after the handshake; CloseInfo is emitted, after
\* SetMainWindow(Connection), iff the server is "valkey"; for "redis"
\* ShowInfo(PartiallySupported) comes before SetMainWindow(Connection) and
\* CloseInfo never; a failed new emits neither SetMainWindow nor CloseInfo
C24_EventOrder ==
    /\ EventAt("SetMainWindow(Connection)") # {} =>
          Len(h_replies) = Len(ExpectedHandshake(h_url)) /\ h_replies[Len(h_replies)].ok
    /\ (h_pc = "done" /\ h_result.ret = "Ok") =>
          /\ h_events[1] = "ShowInfo(Connecting)"
          /\ h_hello[1].server[1] = S_valkey =>
                h_events = <<"ShowInfo(Connecting)", "SetMainWindow(Connection)", "CloseInfo">>
          /\ h_hello[1].server[1] = S_redis =>
                h_events = <<"ShowInfo(Connecting)", "ShowInfo(PartiallySupported)",
                             "SetMainWindow(Connection)">>
          /\ h_hello[1].server[1] \in {S_valkey, S_redis}
    /\ (h_pc = "done" /\ h_result.ret = "Err") =>
          /\ EventAt("SetMainWindow(Connection)") = {}
          /\ EventAt("CloseInfo") = {}

\* the upper-case form of the lower-case letters
UpperOf(ch) ==
    CASE ch = "a" -> "A" [] ch = "e" -> "E" [] ch = "g" -> "G" [] ch = "s" -> "S"
      [] ch = "t" -> "T" [] ch = "x" -> "X" [] OTHER -> ch

\* the commands whose full_name starts with the upper-cased prefix
Matching(prefix) ==
    {cmd \in SeqRange(g_commands) :
        /\ Len(cmd) >= Len(prefix)
        /\ \A i \in 1 .. Len(prefix) : cmd[i] = UpperOf(prefix[i])}

Min(a, b) == IF a < b THEN a ELSE b

\* C25: get_suggestions returns the empty list for the empty prefix; otherwise
\* the first 10, or all if fewer, of the commands whose full_name starts with
\* the upper-cased prefix, in ascending full_name order, and nothing else
C25_Suggestions ==
    g_input # NoInput =>
        IF g_input = <<>> THEN g_suggestions = <<>>
        ELSE /\ Len(g_suggestions) = Min(10, Cardinality(Matching(g_input)))
             /\ SeqRange(g_suggestions) \subseteq Matching(g_input)
             /\ \A i, j \in 1 .. Len(g_suggestions) :
                   i < j => str_lt(g_suggestions[i], g_suggestions[j])
             /\ \A cmd \in Matching(g_input) \ SeqRange(g_suggestions) :
                   \A i \in 1 .. Len(g_suggestions) : str_lt(g_suggestions[i], cmd)

C25_Witness ==
    /\ g_input = <<"s">>
    /\ Cardinality(Matching(g_input)) > 10
    /\ Len(g_suggestions) = 10
    /\ g_suggestions[1] = <<"S", "A">>
    /\ <<"G", "E", "T">> \in SeqRange(g_commands)

\* C29: whenever a suggestion is accepted with Enter, autocomplete_selected_index
\* is smaller than the number of suggestions of the command text, so the frame
\* never indexes suggestions out of bounds.
C29_IndexInBounds == ~w_panic

\* C30: update_server never creates an alias: under every interleaving with
\* delete_server on the same alias, once delete_server has returned the alias is
\* absent from the servers map and from the saved file.
C30_DeletedStaysAbsent ==
    s_del.pc = "done" /\ s_del.alias = s_upd.alias =>
        /\ s_del.alias \notin DOMAIN s_servers
        /\ s_del.alias \notin DOMAIN load_from_file(s_file)

=========================================================================
